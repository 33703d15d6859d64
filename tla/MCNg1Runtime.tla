---------------------------- MODULE MCNg1Runtime ----------------------------
EXTENDS Ng1Runtime

\* The sequences a provider puts on a frame of each kind: the right one for a batch
\* of one to three frames, and wrong ones, which repeat or skip a sequence.
SequencesOf ==
    [accepted |-> {0, 1}, begin |-> {1, 2}, end |-> {2, 3}, resume |-> {3, 4},
     control |-> 0 .. 4, total |-> {0, 2, 3}, complete |-> {3, 4}, failed |-> {4}]

\* A wrong binding only where it is looked at, and no "data", which the runtime
\* handles as it handles an accepted "control".
ProviderInputs ==
    { f \in [kind : Kinds \ {"data"}, seq : 0 .. 4, bound : BOOLEAN, attempt : Attempts] :
        /\ f.seq \in SequencesOf[f.kind]
        /\ ~f.bound => f.kind \in {"accepted", "begin", "end", "resume"} }

\* A provider that makes no mistake: its task, one empty batch, the whole progress, the
\* end.
OrderlySequences == [accepted |-> 0, begin |-> 1, end |-> 2, total |-> 3, complete |-> 4]

OrderlyInputs ==
    { f \in ProviderInputs :
        /\ f.kind \in DOMAIN OrderlySequences /\ f.bound
        /\ f.seq = OrderlySequences[f.kind] }
=============================================================================
