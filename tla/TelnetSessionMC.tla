--------------------------- MODULE TelnetSessionMC ---------------------------
EXTENDS TelnetSession
MCLetters == <<"a">>
=============================================================================
