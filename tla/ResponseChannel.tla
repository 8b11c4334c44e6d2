--------------------------- MODULE ResponseChannel --------------------------
(***************************************************************************)
(* What a connection promises its client, whatever buffers, framing and    *)
(* partial writes lie between them: the client reads the responses, whole  *)
(* and in the order they were given, and none follows one that announces   *)
(* the end.  Delivery implements this.                                     *)
(***************************************************************************)
EXTENDS Naturals, Sequences

VARIABLES queued, got

ChannelInit == queued = <<>> /\ got = <<>>

(* One step of the event loop may give several, a 100 and a final one.     *)
Give == /\ Len(queued') > Len(queued)
        /\ SubSeq(queued', 1, Len(queued)) = queued
        /\ \A i \in 1..(Len(queued') - 1) : ~queued'[i].close
        /\ UNCHANGED got

Read == /\ Len(got) < Len(queued)
        /\ got' = Append(got, queued[Len(got) + 1])
        /\ UNCHANGED queued

ChannelSpec == ChannelInit /\ [][Give \/ Read]_<<queued, got>>
=============================================================================
