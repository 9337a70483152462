----------------------- MODULE BridgeBackendRefinement -----------------------
(***************************************************************************)
(* BridgeBackend implements BatchTransactions.  The committed database is  *)
(* the same; a batch took effect once for every attempt that was answered  *)
(* 200, whether the bridge heard of it or not; the working database, the   *)
(* handlers and the deliveries are hidden.                                 *)
(***************************************************************************)
EXTENDS BridgeBackendProps

Abstract == INSTANCE BatchTransactions WITH
    times  <- [b \in Batches |->
                  Cardinality({k \in 1..MaxAttempts : req[<<b, k>>].pc = "ok"})],
    status <- [b \in Batches |-> CASE post[b].status = "done"   -> "acknowledged"
                                   [] post[b].status = "failed" -> "given_up"
                                   [] OTHER                     -> "open"]

\* Whatever handlers overlap, answers get lost and crashes happen: the database
\* goes from one state to the next by one whole effect of one attempt, or by an
\* operator action; a batch is delivered only after an effect; none stays open.
ImplementsTransactions == Abstract!AbstractSpec

\* The same without the progress of the bridge.
TransactionSteps == Abstract!AbstractInit /\ [][Abstract!AbstractNext]_(Abstract!abstractVars)

=============================================================================
