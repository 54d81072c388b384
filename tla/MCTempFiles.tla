----------------------------- MODULE MCTempFiles -----------------------------
(* An instance of TempFiles for TLC. *)
EXTENDS TempFiles

CONSTANTS j1, j2, src

Shape(kind, media) == [kind |-> kind, media |-> media, source |-> src]

MCShapes ==
  {Shape(k, <<"photo">>) : k \in {"sftp", "s3", "url", "base64", "yt", "speech",
                                   "empty", "partial"}}
  \cup {Shape(k, m) : k \in {"api", "form"},
                      m \in {<<>>, <<"photo", "doc">>, <<"photo", "video">>}}
  \cup {Shape("base64", <<"video">>), Shape("dump", <<"doc">>)}
=============================================================================
