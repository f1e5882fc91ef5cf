---------------------------- MODULE MCIngestion ----------------------------
(* Instances of Ingestion for TLC. *)
EXTENDS Ingestion, TLC

Plain == [magic |-> "pdf", inside |-> "text", legible |-> TRUE, marked |-> FALSE,
          ruled |-> FALSE, long |-> FALSE, topic |-> None]

\* A clean scan that OCR reads, one for each layer to condemn, a scan that
\* stays without text, and a container that no parser knows.
MCContents == {"clean", "ruled", "long", "dark", "odd"}
MCTraits == [c \in MCContents |->
  CASE c = "clean" -> [Plain EXCEPT !.inside = "blank"]
    [] c = "ruled" -> [Plain EXCEPT !.magic = "none", !.inside = "headers", !.ruled = TRUE]
    [] c = "long"  -> [Plain EXCEPT !.magic = "zip", !.inside = "document", !.long = TRUE]
    [] c = "dark"  -> [Plain EXCEPT !.magic = "image", !.legible = FALSE]
    [] c = "odd"   -> [Plain EXCEPT !.magic = "zip", !.inside = "broken"]]

Symmetry == Permutations(Workers) \cup Permutations(Docs)
=============================================================================
