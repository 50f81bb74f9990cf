----------------------------- MODULE MCIngestor -----------------------------
(* Ingestor on small logs. *)
EXTENDS Ingestor

LOCAL Sent(s, n) == [shape |-> s, changes |-> n]

\* A message with two changes, one that is no JSON, one that only has markers,
\* one in format-version 2, whose change the parser does not find, and two more
\* to be received after each of them failed.
WalOfAll == <<Sent("listed", 2), Sent("garbled", 0), Sent("listed", 0),
              Sent("flat", 1), Sent("listed", 1), Sent("listed", 1)>>
=============================================================================
