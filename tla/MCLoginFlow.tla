----------------------------- MODULE MCLoginFlow ------------------------------
(* LoginFlow with two requests, two codes and two lines.                      *)
EXTENDS LoginFlow

\* No reader, the two kinds of readers, and the manual mode.
AllSettings ==
  [mode : {"callback"}, reader : Readers] \cup [mode : {"manual"}, reader : {"none"}]

\* A session whose browser is elsewhere.
Remote == [mode : {"callback"}, reader : {"paste"}]

===============================================================================
