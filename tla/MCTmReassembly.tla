---------------------------- MODULE MCTmReassembly ----------------------------
(* Instances of TmReassembly for TLC: streams of up to MaxPackets packets of *)
(* the sizes in Sizes that fill frames exactly.                              *)
EXTENDS TmReassembly, SequencesExt

CONSTANTS Sizes, MaxPackets

Total(s) == FoldSeq(LAMBDA n, acc : n + acc, 0, s)
MCStreams ==
    {FlattenSeq([k \in 1 .. Len(s) |-> [i \in 1 .. s[k] |-> [pkt |-> k, at |-> i, len |-> s[k]]]]) :
        s \in {q \in SeqOf(Sizes, MaxPackets) : Total(q) % FieldSize = 0 /\ q # <<>>}}
=============================================================================
