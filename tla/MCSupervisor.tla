---------------------------- MODULE MCSupervisor ----------------------------
EXTENDS Supervisor, TLC

CONSTANTS p1, p2, cli, page

\* thbrctl flash, and the web page asking for anything.
FlashAndSettings == cli :> {"flash"} @@ page :> {"restore", "backup", "flash"}

FlashTwice == cli :> 2 @@ page :> 1

\* One request, of any kind.
AnyOne == page :> {"restore", "backup", "flash"}
Once == page :> 1

\* Nobody asks for anything.
Nothing == page :> {}
=============================================================================
