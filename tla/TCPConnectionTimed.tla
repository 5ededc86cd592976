------------------------- MODULE TCPConnectionTimed -------------------------
(***************************************************************************)
(* Two TCPConnections over a network that keeps segments in order, loses   *)
(* at most MaxLoss of them, and delivers the others before the clocks of   *)
(* the two ends, which run at the same rate, tick twice.  What the ends    *)
(* promise when the network is that good: to finish, without a reset.      *)
(***************************************************************************)
EXTENDS TCPEnds

CONSTANTS MaxLoss,    \* how many segments the network loses
          Prompt,     \* whether it delivers the others before the next tick
          Patient     \* whether applications wait for their bytes to be
                      \* acknowledged before they end their stream

VARIABLES line,       \* line[e] is the sequence of segments on their way to e
          late,       \* how many of them were sent before the last tick
          lost        \* how many segments were lost

vars == << conn, line, late, lost >>

Init ==
  /\ InitEnds
  /\ line = [e \in Ends |-> << >>]
  /\ late = [e \in Ends |-> 0]
  /\ lost = 0

(* The first segment has left the line of e. *)
OneLess(e) == late' = [late EXCEPT ![e] = IF @ = 0 THEN 0 ELSE @ - 1]

Sends(e, c) ==
  /\ conn' = [conn EXCEPT ![e] = Flushed(c)]
  /\ line' = [line EXCEPT ![peer(e)] = @ \o c.segments_out]
  /\ UNCHANGED << late, lost >>

Connect == LISTEN(conn[Client]) /\ Sends(Client, connect(conn[Client]))

(* Nobody reads the segments of an end that is over. *)
Deliver(e) ==
  LET c == IF CanReceive(e) THEN segment_received(conn[e], Head(line[e]))
           ELSE conn[e]
  IN  /\ line[e] # << >>
      /\ conn' = [conn EXCEPT ![e] = Flushed(c)]
      /\ line' = [line EXCEPT ![e] = Tail(@), ![peer(e)] = @ \o c.segments_out]
      /\ OneLess(e)
      /\ UNCHANGED lost

Lose(e) ==
  /\ line[e] # << >> /\ lost < MaxLoss
  /\ line' = [line EXCEPT ![e] = Tail(@)]
  /\ lost' = lost + 1
  /\ OneLess(e)
  /\ UNCHANGED conn

Write(e, len) == CanWrite(e, len) /\ Sends(e, Written(e, len))

(***************************************************************************)
(* A patient application keeps its FIN from overtaking one of its bytes,   *)
(* which the receiver does not survive: see EofAhead in                    *)
(* StreamReassemblerSpec and FinAhead in TCPReceiverSpec.                  *)
(***************************************************************************)
Waits(e) == Patient /\ conn[e].sender.bytes_in_flight > 0

EndInput(e) == CanEnd(e) /\ ~Waits(e) /\ Sends(e, end_input_stream(conn[e]))

Read(e, len) == ReadBytes(e, len) /\ UNCHANGED << line, late, lost >>

(* A millisecond passes for both ends. *)
CanTick ==
  /\ \A e \in Ends : late[e] = 0 /\ (Prompt => line[e] = << >>)
  /\ \E e \in Ends : active(conn[e])
  /\ ~LISTEN(conn[Client])

Tick ==
  LET ticked == [e \in Ends |->
                   IF active(conn[e]) THEN tick(conn[e], 1) ELSE conn[e]]
  IN  /\ CanTick
      /\ conn' = [e \in Ends |-> Flushed(ticked[e])]
      /\ line' = [e \in Ends |-> line[e] \o ticked[peer(e)].segments_out]
      /\ late' = [e \in Ends |-> Len(line[e])]
      /\ UNCHANGED lost

Next ==
  \/ Connect
  \/ \E e \in Ends :
       \/ Deliver(e)
       \/ Lose(e)
       \/ \E len \in WriteLens : Write(e, len)
       \/ EndInput(e)
       \/ \E len \in 1..RecvCapacity : Read(e, len)
  \/ Tick

Spec == Init /\ [][Next]_vars

(***************************************************************************)
(* The event loop of a socket handles every event in its turn and ticks    *)
(* at least every ten milliseconds (tcp_sponge_socket.cc:24-39), and an    *)
(* application does what it is free to do.  Weak fairness of each action,  *)
(* with the condition under which the action is enabled written out;       *)
(* writing, ending and reading disable themselves, and so does Connect.    *)
(***************************************************************************)
Fairness ==
  /\ []<>~LISTEN(conn[Client])
  /\ []<>~CanTick \/ []<><<Tick>>_vars
  /\ \A e \in Ends :
       /\ []<>(line[e] = << >>) \/ []<><<Deliver(e)>>_vars
       /\ []<>~(\E len \in WriteLens : CanWrite(e, len))
       /\ []<>(~CanEnd(e) \/ Waits(e))
       /\ []<>buffer_empty(in(e))

FairSpec == Spec /\ Fairness

-----------------------------------------------------------------------------
(***************************************************************************)
(* Three losses, wherever they fall, reset neither end: the peer's FIN is  *)
(* repeated one, three and seven timeouts after it was sent first, and the *)
(* end that lingers for ten (tcp_connection.cc:63-64) is there to          *)
(* acknowledge it.  A fourth loss leads to the next repetition, fifteen    *)
(* timeouts after the first, when nobody answers any more.                 *)
(***************************************************************************)
NoReset == \A e \in Ends : ~conn[e].unclear


=============================================================================
