--------------------------- MODULE BoxRefinement ---------------------------
(***************************************************************************)
(* Operations issued one after another implement the contract of a BOX.    *)
(***************************************************************************)
EXTENDS BoxService

Contract == INSTANCE BoxContract WITH
    status <- [b \in Boxes |-> IF rec[b] = None THEN "Absent" ELSE rec[b].status],
    runtime <- [b \in Boxes |-> vm \cap SandboxesOf(b) # {}],
    data <- [b \in Boxes |-> disk[b] # 0]

\* Issued one at a time, the operations of LocalBoxService implement
\* BoxContract: no BOX is reported Stopped, Failed or Removing while its VM is
\* alive, and only remove_box discards a workspace.
ImplementsContract == Contract!ContractSpec

=============================================================================
