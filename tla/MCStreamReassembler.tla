------------------------ MODULE MCStreamReassembler -------------------------
(* TLC instances of StreamReassemblerSpec with FreeIntervals beside it. *)
EXTENDS FreeIntervals

(* Different bytes: a misplaced one shows. *)
MCStream == << 11, 12, 13, 14, 15, 16 >>

-----------------------------------------------------------------------------
(* The loop of lines 87-96, one iteration per level of the recursion. *)
RECURSIVE DrainLoop(_)
DrainLoop(x) ==
  IF DOMAIN x.strs = {} \/ Min(DOMAIN x.strs) > x.assembled_bytes THEN x
  ELSE LET k == Min(DOMAIN x.strs)
           d == x.strs[k]
           y == [x EXCEPT !.strs = [i \in DOMAIN @ \ {k} |-> @[i]]]
       IN  IF k + Len(d) > x.assembled_bytes
             THEN DrainLoop([y EXCEPT
                    !.output = write(@, SubSeq(d, x.assembled_bytes - k + 1, Len(d))),
                    !.assembled_bytes = k + Len(d)])
             ELSE DrainLoop(y)

(***************************************************************************)
(* The closed form drain, on which the proofs rest, computes what the loop *)
(* of push_substring computes, for every substring that can be stored in   *)
(* every reachable state: the bytes written, the position reached and the  *)
(* substrings that stay.                                                   *)
(***************************************************************************)
DrainIsTheLoop ==
  \A index, len \in 0..N :
    /\ index + len <= min(N, limit(r))
    /\ index + len > r.assembled_bytes
    => LET s == store(r, SubSeq(Stream, index + 1, index + len), index)
       IN  drain(s) = DrainLoop(s)


=============================================================================
