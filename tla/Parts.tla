-------------------------------- MODULE Parts --------------------------------
(* What the parts of the dashboard share in the models of Lists, Samplers and *)
(* Access: which of them a behaviour has, and how much still happens to them. *)
EXTENDS Integers, FiniteSets, Sequences

CONSTANTS
  Setups,    \* sets of parts; a behaviour has the parts of one of them
  Budget     \* for each of them, a bound on what users and the outside do

ASSUME PartsAssumption == Budget \in [Setups -> Nat]

VARIABLES
  present,   \* the parts there are
  steps

PartsInit == present \in Setups /\ steps = 0

Spend(part) ==
  /\ part \in present
  /\ steps < Budget[present]
  /\ steps' = steps + 1
  /\ UNCHANGED present

Free == UNCHANGED <<present, steps>>
=============================================================================
