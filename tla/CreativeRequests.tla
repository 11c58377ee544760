-------------------------- MODULE CreativeRequests --------------------------
(***************************************************************************)
(* What CreativeService promises of each request id it hands out: chunks,  *)
(* then exactly one of finished and failed, and nothing afterwards.  A     *)
(* cancellation that is accepted silences the request, and its only end is *)
(* finished with finishReason "cancelled".                                 *)
(***************************************************************************)
EXTENDS Naturals, Sequences

CONSTANT Requests

VARIABLES
  open,       \* requests that have been made and have not ended
  cancelling, \* those among them whose cancellation has been accepted
  chunks,     \* per request, the number of chunks signalled
  ends        \* per request, the finished and failed signals so far

vars == <<open, cancelling, chunks, ends>>

Kinds == {"stop", "cancelled", "failed"}

Init ==
  /\ open = {}
  /\ cancelling = {}
  /\ chunks = [r \in Requests |-> 0]
  /\ ends = [r \in Requests |-> <<>>]

\* At most one request is made, ended or cancelled by a call or an event, except
\* that making a request may cancel an earlier one.
Made(r)   == r \in Requests \ open /\ ends[r] = <<>>
Signal(r) == chunks' = [chunks EXCEPT ![r] = @ + 1]
Ended(r, kind) == ends' = [ends EXCEPT ![r] = Append(@, kind)]

Generate(r) ==
  /\ Made(r)
  /\ UNCHANGED chunks
  /\ \/ /\ open' = open \cup {r}
        /\ \E q \in SUBSET open : cancelling' = cancelling \cup q
        /\ UNCHANGED ends
     \/ \E q \in open \ cancelling :
          /\ open' = (open \ {q}) \cup {r}
          /\ Ended(q, "cancelled")
          /\ UNCHANGED cancelling

Chunk(r) ==
  /\ r \in open \ cancelling
  /\ Signal(r)
  /\ UNCHANGED <<open, cancelling, ends>>

Cancel(r) ==
  /\ r \in open
  /\ cancelling' = cancelling \cup {r}
  /\ UNCHANGED <<open, chunks, ends>>

End(r, kind) ==
  /\ r \in open
  /\ r \in cancelling => kind = "cancelled"
  /\ open' = open \ {r}
  /\ cancelling' = cancelling \ {r}
  /\ Ended(r, kind)
  /\ UNCHANGED chunks

Next == \E r \in Requests : \/ Generate(r) \/ Chunk(r) \/ Cancel(r)
                            \/ \E kind \in Kinds : End(r, kind)

Spec == Init /\ [][Next]_vars
=============================================================================
