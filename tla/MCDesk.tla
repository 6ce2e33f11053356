------------------------------- MODULE MCDesk -------------------------------
EXTENDS Desk
MCDesktops == {<<>>, << <<"f", 2>> >>}
=============================================================================
