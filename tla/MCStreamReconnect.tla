--------------------------- MODULE MCStreamReconnect ---------------------------
(* Small instances of StreamReconnect: the target lists an embedder passes.  *)
EXTENDS StreamReconnect

OneByIndex == <<"0">>
TwoByIndex == <<"0", "1">>
TwoNamed   == <<"twitch", "youtube">>
=============================================================================
