-------------------------- MODULE CommandQueueProofs --------------------------
(***************************************************************************)
(* Theorems about CommandQueue, for any number of handlers, senders and    *)
(* disconnects, and any capacity of the channel.                           *)
(***************************************************************************)
EXTENDS CommandQueue, SequenceTheorems, TLAPS

\* The critical section of disconnectDevice.
Inside(d) == dpc[d] \in {"drain", "take", "notice", "nil"}

\* room.mu is held for writing by the disconnect that is inside, and then by no
\* reader; whoever holds a channel of the room holds the current one.
LockInv ==
  /\ \A d \in Disconnectors : Inside(d) <=> writer = d
  /\ writer # NoOne => Readers = {}
  /\ HeldChannelIsCurrent
  /\ \A p \in Holders : target[p] \in Conns

\* A channel that no disconnect has written to.
Plain(c) ==
  /\ \A i \in 1..Len(channel[c]) : channel[c][i] = "command"
  /\ lastFrame[c] \in {"none", "command"}
  /\ \A d \in Disconnectors : target[d] = c => dpc[d] # "nil"

\* The notice is queued, or was received, and the nil frame is not there yet.
Noticed(c, d) ==
  /\ dpc[d] = "nil"
  /\ channel[c] = <<"notice">> \/ (channel[c] = <<>> /\ lastFrame[c] = "notice")

\* The nil frame is queued behind the notice.
Closing(c, d) ==
  /\ dpc[d] = "done"
  /\ \/ /\ Len(channel[c]) >= 2
        /\ channel[c][1] = "notice" /\ channel[c][2] = "nil"
     \/ /\ Len(channel[c]) >= 1
        /\ channel[c][1] = "nil" /\ lastFrame[c] = "notice"

\* What a running handler that one disconnect at most has addressed has in its
\* channel.
ContentInv ==
  \A c \in Conns :
    hpc[c] \in {"select", "replying"} /\ OneDisconnect(c) =>
      \/ Plain(c)
      \/ \E d \in Disconnectors : target[d] = c /\ (Noticed(c, d) \/ Closing(c, d))

\* A disconnect that found the channel empty finds it empty.
EmptyInv ==
  \A d \in Disconnectors : dpc[d] = "notice" => channel[target[d]] = <<>>

\* A disconnect that has not started has no channel, and a handler that waits in
\* SendCommand does nothing else.
LocalInv ==
  /\ \A d \in Disconnectors : dpc[d] = "called" => target[d] = NoConn
  /\ \A c \in Conns : spc[c] \in {"locked", "blocked"} => hpc[c] = "replying"

QueueInv == TypeOK /\ LockInv /\ ContentInv /\ EmptyInv /\ LocalInv

-----------------------------------------------------------------------------
LEMMA TypeInit == Init => TypeOK
BY QueueAssumption DEF Init, TypeOK, Callers, Frames

\* What receiving and queueing do to a channel.
LEMMA TailOfChannel ==
  ASSUME NEW s \in Seq(Frames), s # <<>>
  PROVE  /\ Tail(s) \in Seq(Frames)
         /\ Head(s) = s[1] /\ Head(s) \in Frames
         /\ Len(s) \in Nat /\ Len(s) >= 1
         /\ Len(Tail(s)) = Len(s) - 1
         /\ \A i \in 1..Len(Tail(s)) : Tail(s)[i] = s[i + 1]
BY HeadTailProperties

LEMMA AppendToChannel ==
  ASSUME NEW s \in Seq(Frames), NEW f \in Frames
  PROVE  /\ Append(s, f) \in Seq(Frames)
         /\ Len(s) \in Nat
         /\ Len(Append(s, f)) = Len(s) + 1
         /\ Append(s, f)[Len(s) + 1] = f
         /\ \A i \in 1..Len(s) : Append(s, f)[i] = s[i]
BY AppendProperties

\* SendCommand puts at most a command into the current channel.
LEMMA SendEffect ==
  ASSUME TypeOK, LockInv, NEW p \in Callers, SendCommand(p)
  PROVE  /\ UNCHANGED <<controls, writer, dpc, lastFrame>>
         /\ \/ UNCHANGED channel
            \/ /\ writer = NoOne /\ controls \in Conns /\ ~Full(controls)
               /\ channel' = [channel EXCEPT ![controls] = Append(@, "command")]
         /\ \A q \in (Callers \cup Disconnectors) \ {p} : target'[q] = target[q]
         /\ target'[p] \in {NoConn, target[p], controls}
<1>1. ASSUME SendNow(p)
      PROVE  writer = NoOne /\ controls \in Conns /\ ~Full(controls)
  BY <1>1 DEF SendNow, CanRLock, TypeOK
<1>2. ASSUME SendUnblocked(p)
      PROVE  writer = NoOne /\ controls \in Conns /\ target[p] = controls /\ ~Full(controls)
  BY <1>2 DEF SendUnblocked, LockInv, HeldChannelIsCurrent, Holders, Readers
<1> QED BY <1>1, <1>2 DEF SendCommand, SendLock, SendRefused, SendNow, SendBlock,
           SendUnblocked, SendTimeout, SendReturn, TypeOK

\* The drain loop and the frames of disconnectDevice.
LEMMA DrainEffect ==
  ASSUME TypeOK, LockInv, NEW d \in Disconnectors,
         DrainTest(d) \/ DrainTake(d) \/ QueueNotice(d) \/ QueueNil(d)
  PROVE  /\ target[d] = controls /\ controls \in Conns /\ writer = d
         /\ UNCHANGED <<hpc, controls, commandMu, spc, target, lastFrame>>
         /\ \A c \in Conns : c # controls => channel'[c] = channel[c]
         /\ \A e \in Disconnectors \ {d} : dpc'[e] = dpc[e] /\ ~Inside(e)
         /\ Readers = {}
<1>1. Inside(d)
  BY DEF Inside, DrainTest, DrainTake, QueueNotice, QueueNil
<1>2. writer = d /\ target[d] = controls /\ controls \in Conns
  BY <1>1 DEF LockInv, HeldChannelIsCurrent, Holders, Inside
<1>3. Readers = {} /\ \A e \in Disconnectors \ {d} : ~Inside(e)
  BY <1>1, <1>2, QueueAssumption DEF LockInv
<1> QED BY <1>1, <1>2, <1>3 DEF DrainTest, DrainTake, QueueNotice, QueueNil, TypeOK

-----------------------------------------------------------------------------
LEMMA TypeStep == TypeOK /\ LockInv /\ [Next]_vars => TypeOK'
<1> SUFFICES ASSUME TypeOK, LockInv, [Next]_vars
             PROVE  TypeOK'
  OBVIOUS
<1> USE QueueAssumption DEF TypeOK
<1>0. "command" \in Frames /\ "notice" \in Frames /\ "nil" \in Frames /\ <<>> \in Seq(Frames)
  BY DEF Frames
<1>1. ASSUME NEW c \in Conns, AttachLock(c)
      PROVE  TypeOK'
  BY <1>1 DEF AttachLock, Callers
<1>2. ASSUME NEW c \in Conns, AttachRoom(c)
      PROVE  TypeOK'
  <2>1. /\ channel' \in [Conns -> Seq(Frames)]
        /\ \A x \in Conns : Len(channel'[x]) <= Cap
    BY <1>0, <1>2 DEF AttachRoom
  <2> QED BY <1>2, <2>1 DEF AttachRoom
<1>3. ASSUME NEW c \in Conns, Receive(c)
      PROVE  TypeOK'
  <2>1. /\ channel[c] \in Seq(Frames) /\ channel[c] # <<>>
        /\ channel' = [channel EXCEPT ![c] = Tail(channel[c])]
    BY <1>3 DEF Receive
  <2>2. /\ Tail(channel[c]) \in Seq(Frames) /\ Len(Tail(channel[c])) <= Cap
        /\ Head(channel[c]) \in Frames
    BY <2>1, TailOfChannel
  <2>3. /\ channel' \in [Conns -> Seq(Frames)]
        /\ \A x \in Conns : Len(channel'[x]) <= Cap
    BY <2>1, <2>2
  <2>4. lastFrame' \in [Conns -> {"none", "command", "notice"}]
    BY <1>3, <2>2 DEF Receive, Frames
  <2> QED BY <1>3, <2>3, <2>4 DEF Receive
<1>4. ASSUME NEW c \in Conns, Reply(c) \/ ConnectionLost(c)
      PROVE  TypeOK'
  BY <1>4 DEF Reply, ConnectionLost
<1>5. ASSUME NEW c \in Conns, Detach(c)
      PROVE  TypeOK'
  <2>1. /\ channel' \in [Conns -> Seq(Frames)]
        /\ \A x \in Conns : Len(channel'[x]) <= Cap
    BY <1>0, <1>5 DEF Detach
  <2> QED BY <1>5, <2>1 DEF Detach
<1>6. ASSUME NEW p \in Callers, SendCommand(p)
      PROVE  TypeOK'
  <2>1. /\ channel' \in [Conns -> Seq(Frames)]
        /\ \A x \in Conns : Len(channel'[x]) <= Cap
    <3>1. CASE UNCHANGED channel
      BY <3>1
    <3>2. CASE /\ controls \in Conns /\ ~Full(controls)
               /\ channel' = [channel EXCEPT ![controls] = Append(@, "command")]
      <4>1. channel[controls] \in Seq(Frames) /\ Len(channel[controls]) # Cap
        BY <3>2 DEF Full
      <4>2. /\ Append(channel[controls], "command") \in Seq(Frames)
            /\ Len(Append(channel[controls], "command")) <= Cap
        BY <1>0, <3>2, <4>1, AppendToChannel
      <4> QED BY <3>2, <4>2
    <3> QED BY <1>6, <3>1, <3>2, SendEffect
  <2>2. target' \in [Callers \cup Disconnectors -> Conns \cup {NoConn}]
    <3>1. \/ UNCHANGED target
          \/ target' = [target EXCEPT ![p] = NoConn]
          \/ target' = [target EXCEPT ![p] = controls]
      BY <1>6 DEF SendCommand, SendLock, SendRefused, SendNow, SendBlock,
                  SendUnblocked, SendTimeout, SendReturn
    <3> QED BY <3>1
  <2>3. /\ hpc' \in [Conns -> {"closed", "attaching", "select", "replying", "leaving"}]
        /\ spc' \in [Callers -> {"called", "locked", "blocked", "returned"}]
        /\ commandMu' \in Callers \cup {NoOne}
    <3>1. UNCHANGED hpc \/ hpc' = [hpc EXCEPT ![p] = "select"]
      BY <1>6 DEF SendCommand, SendLock, SendRefused, SendNow, SendBlock,
                  SendUnblocked, SendTimeout, SendReturn
    <3>2. \E v \in {"called", "locked", "blocked", "returned"} : spc' = [spc EXCEPT ![p] = v]
      BY <1>6 DEF SendCommand, SendLock, SendRefused, SendNow, SendBlock,
                  SendUnblocked, SendTimeout, SendReturn
    <3>3. commandMu' \in Callers \cup {NoOne}
      BY <1>6 DEF SendCommand, SendLock, SendRefused, SendNow, SendBlock,
                  SendUnblocked, SendTimeout, SendReturn
    <3>4. hpc' \in [Conns -> {"closed", "attaching", "select", "replying", "leaving"}]
      BY <3>1
    <3>5. spc' \in [Callers -> {"called", "locked", "blocked", "returned"}]
      <4>1. PICK v \in {"called", "locked", "blocked", "returned"} : spc' = [spc EXCEPT ![p] = v]
        BY <3>2
      <4> QED BY <4>1
    <3> QED BY <3>3, <3>4, <3>5
  <2> QED BY <1>6, <2>1, <2>2, <2>3, SendEffect
<1>7. ASSUME NEW d \in Disconnectors, DisconnectLock(d)
      PROVE  TypeOK'
  BY <1>7 DEF DisconnectLock
<1>8. ASSUME NEW d \in Disconnectors,
             DrainTest(d) \/ DrainTake(d) \/ QueueNotice(d) \/ QueueNil(d)
      PROVE  TypeOK'
  <2>0. target[d] = controls /\ controls \in Conns /\ channel[controls] \in Seq(Frames)
    BY <1>8, DrainEffect
  <2>1. /\ channel' \in [Conns -> Seq(Frames)]
        /\ \A x \in Conns : Len(channel'[x]) <= Cap
    <3>1. CASE DrainTest(d)
      BY <3>1 DEF DrainTest
    <3>2. CASE DrainTake(d)
      <4>1. channel[controls] # <<>> /\ channel' = [channel EXCEPT ![controls] = Tail(@)]
        BY <2>0, <3>2 DEF DrainTake
      <4>2. Tail(channel[controls]) \in Seq(Frames) /\ Len(Tail(channel[controls])) <= Cap
        BY <2>0, <4>1, TailOfChannel
      <4> QED BY <2>0, <4>1, <4>2
    <3>3. ASSUME NEW f \in Frames, ~Full(controls),
                 channel' = [channel EXCEPT ![controls] = Append(@, f)]
          PROVE  /\ channel' \in [Conns -> Seq(Frames)]
                 /\ \A x \in Conns : Len(channel'[x]) <= Cap
      <4>1. /\ Append(channel[controls], f) \in Seq(Frames)
            /\ Len(Append(channel[controls], f)) <= Cap
        BY <2>0, <3>3, AppendToChannel DEF Full
      <4> QED BY <2>0, <3>3, <4>1
    <3>4. CASE QueueNotice(d)
      BY <1>0, <2>0, <3>3, <3>4 DEF QueueNotice, Farewell
    <3>5. CASE QueueNil(d)
      BY <1>0, <2>0, <3>3, <3>5 DEF QueueNil, Farewell
    <3> QED BY <1>8, <3>1, <3>2, <3>4, <3>5
  <2>2. /\ dpc' \in [Disconnectors ->
                       {"called", "drain", "take", "notice", "nil", "done", "refused"}]
        /\ writer' \in Disconnectors \cup {NoOne}
    BY <1>8 DEF DrainTest, DrainTake, QueueNotice, QueueNil
  <2> QED BY <1>8, <2>1, <2>2, DrainEffect
<1>9. CASE UNCHANGED vars
  BY <1>9 DEF vars
<1> QED BY <1>1, <1>2, <1>3, <1>4, <1>5, <1>6, <1>7, <1>8, <1>9
        DEF Next, Attach, DisconnectDevice

-----------------------------------------------------------------------------
\* The locks.
LEMMA LockInit == Init => LockInv
<1> SUFFICES ASSUME Init
             PROVE  LockInv
  OBVIOUS
<1>1. /\ \A d \in Disconnectors : dpc[d] = "called"
      /\ \A p \in Callers : spc[p] = "called"
      /\ writer = NoOne
  BY DEF Init
<1>2. Holders = {}
  BY <1>1 DEF Holders, Readers
<1> QED BY <1>1, <1>2, QueueAssumption DEF LockInv, Inside, HeldChannelIsCurrent

\* The room is not locked while its channel is replaced or taken away.
LEMMA NoHolders ==
  ASSUME LockInv, CanLock
  PROVE  Holders = {} /\ \A d \in Disconnectors : ~Inside(d)
BY QueueAssumption DEF LockInv, CanLock, Holders, Inside

LEMMA LockStep == TypeOK /\ LockInv /\ [Next]_vars => LockInv'
<1> SUFFICES ASSUME TypeOK, LockInv, [Next]_vars
             PROVE  LockInv'
  OBVIOUS
<1> USE QueueAssumption DEF TypeOK
<1>1. ASSUME NEW c \in Conns, AttachRoom(c) \/ Detach(c)
      PROVE  LockInv'
  <2>1. CanLock /\ UNCHANGED <<spc, dpc, writer, target>>
    BY <1>1 DEF AttachRoom, MayAttach, Detach
  <2>2. Holders' = {} /\ Readers' = Readers /\ \A d \in Disconnectors : Inside(d)' <=> Inside(d)
    BY <2>1, NoHolders DEF Holders, Readers, Inside
  <2> QED BY <2>1, <2>2 DEF LockInv, HeldChannelIsCurrent
<1>2. ASSUME NEW p \in Callers, SendCommand(p)
      PROVE  LockInv'
  <2>1. /\ UNCHANGED <<controls, writer, dpc>>
        /\ \A q \in (Callers \cup Disconnectors) \ {p} : target'[q] = target[q]
        /\ \A q \in Callers \ {p} : spc'[q] = spc[q]
        /\ p \notin Disconnectors
    BY <1>2, SendEffect DEF Callers, SendCommand, SendLock, SendRefused, SendNow, SendBlock,
            SendUnblocked, SendTimeout, SendReturn
  <2>2. spc'[p] # "blocked" \/ (SendBlock(p) /\ writer = NoOne /\ target'[p] = controls /\ controls \in Conns)
    BY <1>2 DEF SendCommand, SendLock, SendRefused, SendNow, SendBlock,
            SendUnblocked, SendTimeout, SendReturn, CanRLock, Callers
  <2>3. \A d \in Disconnectors : (Inside(d)' <=> Inside(d)) /\ d # p
    BY <2>1 DEF Inside
  <2>4. Readers' \subseteq Readers \cup {p}
    BY <2>1 DEF Readers
  <2>5. writer # NoOne => Readers' = {}
    BY <2>1, <2>2, <2>4 DEF LockInv, Readers
  <2>6. ASSUME NEW q \in Holders'
        PROVE  target'[q] = controls /\ target'[q] \in Conns
    <3>1. CASE q = p
      BY <2>1, <2>2, <2>6, <3>1 DEF Holders, Readers
    <3>2. CASE q # p
      BY <2>1, <2>6, <3>2 DEF Holders, Readers, LockInv, HeldChannelIsCurrent
    <3> QED BY <3>1, <3>2
  <2> QED BY <2>1, <2>3, <2>5, <2>6 DEF LockInv, HeldChannelIsCurrent
<1>3. ASSUME NEW d \in Disconnectors, DisconnectLock(d)
      PROVE  LockInv'
  <2>1. CanLock /\ Holders = {} /\ (\A e \in Disconnectors : ~Inside(e)) /\ ~Inside(d)
    BY <1>3, NoHolders DEF DisconnectLock, DisconnectMayLock
  <2>2. UNCHANGED <<controls, spc>> /\ Readers' = Readers /\ Readers = {} /\ writer = NoOne
    BY <1>3, <2>1 DEF DisconnectLock, Readers, CanLock
  <2>3. \A e \in Disconnectors \ {d} : dpc'[e] = dpc[e]
    BY <1>3 DEF DisconnectLock
  <2>4. CASE controls = NoConn
    <3>1. dpc'[d] = "refused" /\ writer' = NoOne
      BY <1>3, <2>2, <2>4 DEF DisconnectLock
    <3>2. Holders' = {}
      BY <2>1, <2>2, <2>3, <3>1 DEF Holders, Inside
    <3> QED BY <2>1, <2>2, <2>3, <3>1, <3>2 DEF LockInv, HeldChannelIsCurrent, Inside
  <2>5. CASE controls # NoConn
    <3>1. dpc'[d] = "drain" /\ writer' = d /\ target'[d] = controls
      BY <1>3, <2>5 DEF DisconnectLock
    <3>2. Holders' = {d}
      BY <2>1, <2>2, <2>3, <3>1 DEF Holders, Inside
    <3> QED BY <2>1, <2>2, <2>3, <2>5, <3>1, <3>2 DEF LockInv, HeldChannelIsCurrent, Inside
  <2> QED BY <2>4, <2>5
<1>4. ASSUME NEW d \in Disconnectors,
             DrainTest(d) \/ DrainTake(d) \/ QueueNotice(d) \/ QueueNil(d)
      PROVE  LockInv'
  <2>1. /\ target[d] = controls /\ controls \in Conns /\ writer = d /\ Readers = {}
        /\ UNCHANGED <<controls, spc, target>>
        /\ \A e \in Disconnectors \ {d} : dpc'[e] = dpc[e] /\ ~Inside(e)
    BY <1>4, DrainEffect
  <2>2. \/ Inside(d)' /\ writer' = writer
        \/ ~Inside(d)' /\ writer' = NoOne
    BY <1>4 DEF DrainTest, DrainTake, QueueNotice, QueueNil, Inside
  <2>3. Readers' = {}
    BY <2>1 DEF Readers
  <2>4. Holders' \subseteq {d}
    BY <2>1, <2>3 DEF Holders, Inside
  <2>5. \A e \in Disconnectors \ {d} : ~Inside(e)'
    BY <2>1 DEF Inside
  <2> QED BY <2>1, <2>2, <2>3, <2>4, <2>5 DEF LockInv, HeldChannelIsCurrent
<1>5. ASSUME UNCHANGED <<controls, writer, spc, target, dpc>>
      PROVE  LockInv'
  BY <1>5 DEF LockInv, Inside, HeldChannelIsCurrent, Holders, Readers
<1>6. ASSUME \/ \E c \in Conns : AttachLock(c) \/ Receive(c) \/ Reply(c) \/ ConnectionLost(c)
             \/ UNCHANGED vars
      PROVE  UNCHANGED <<controls, writer, spc, target, dpc>>
  BY <1>6 DEF AttachLock, Receive, Reply, ConnectionLost, vars
<1> QED BY <1>1, <1>2, <1>3, <1>4, <1>5, <1>6 DEF Next, Attach, DisconnectDevice

-----------------------------------------------------------------------------
\* The emptied channel stays empty until the notice.
LEMMA EmptyStep == TypeOK /\ LockInv /\ EmptyInv /\ [Next]_vars => EmptyInv'
<1> SUFFICES ASSUME TypeOK, LockInv, EmptyInv, [Next]_vars,
                    NEW e \in Disconnectors, dpc'[e] = "notice"
             PROVE  channel'[target'[e]] = <<>>
  BY DEF EmptyInv
<1> USE QueueAssumption DEF TypeOK
<1>1. ASSUME NEW c \in Conns, AttachRoom(c) \/ Detach(c)
      PROVE  FALSE
  BY <1>1, NoHolders DEF AttachRoom, MayAttach, Detach, Inside
<1>2. ASSUME NEW c \in Conns, Receive(c)
      PROVE  channel'[target'[e]] = <<>>
  <2>1. dpc[e] = "notice" /\ target'[e] = target[e] /\ channel[target[e]] = <<>>
    BY <1>2 DEF Receive, EmptyInv
  <2>2. c # target[e]
    BY <1>2, <2>1 DEF Receive
  <2> QED BY <1>2, <2>1, <2>2 DEF Receive
<1>3. ASSUME NEW p \in Callers, SendCommand(p)
      PROVE  channel'[target'[e]] = <<>>
  <2>0. e # p
    BY DEF Callers
  <2>1. dpc[e] = "notice" /\ target'[e] = target[e] /\ channel[target[e]] = <<>>
    <3>1. UNCHANGED dpc /\ target'[e] = target[e]
      BY <1>3, <2>0, SendEffect
    <3> QED BY <3>1 DEF EmptyInv
  <2>2. writer = e
    BY <2>1 DEF LockInv, Inside
  <2>3. UNCHANGED channel
    BY <1>3, <2>2, SendEffect
  <2> QED BY <2>1, <2>3
<1>4. ASSUME NEW d \in Disconnectors, DisconnectLock(d)
      PROVE  channel'[target'[e]] = <<>>
  BY <1>4, NoHolders DEF DisconnectLock, DisconnectMayLock, Inside
<1>5. ASSUME NEW d \in Disconnectors,
             DrainTest(d) \/ DrainTake(d) \/ QueueNotice(d) \/ QueueNil(d)
      PROVE  channel'[target'[e]] = <<>>
  <2>1. d = e
    BY <1>5, DrainEffect DEF Inside
  <2>2. DrainTest(d)
    BY <1>5, <2>1 DEF DrainTake, QueueNotice, QueueNil
  <2> QED BY <2>1, <2>2 DEF DrainTest
<1>6. ASSUME UNCHANGED <<channel, target, dpc>>
      PROVE  channel'[target'[e]] = <<>>
  BY <1>6 DEF EmptyInv
<1>7. ASSUME \/ \E c \in Conns : AttachLock(c) \/ Reply(c) \/ ConnectionLost(c)
             \/ UNCHANGED vars
      PROVE  UNCHANGED <<channel, target, dpc>>
  BY <1>7 DEF AttachLock, Reply, ConnectionLost, vars
<1> QED BY <1>1, <1>2, <1>3, <1>4, <1>5, <1>6, <1>7 DEF Next, Attach, DisconnectDevice
-----------------------------------------------------------------------------
\* What a goroutine keeps for itself.
LEMMA LocalStep == TypeOK /\ LocalInv /\ [Next]_vars => LocalInv'
<1> SUFFICES ASSUME TypeOK, LocalInv, [Next]_vars
             PROVE  LocalInv'
  OBVIOUS
<1> USE QueueAssumption DEF TypeOK
<1>1. ASSUME NEW c \in Conns,
             AttachLock(c) \/ AttachRoom(c) \/ Receive(c) \/ Reply(c)
               \/ ConnectionLost(c) \/ Detach(c)
      PROVE  LocalInv'
  <2>1. /\ hpc[c] # "replying" /\ UNCHANGED <<dpc, target, spc>>
        /\ \A x \in Conns \ {c} : hpc'[x] = hpc[x]
    BY <1>1 DEF AttachLock, AttachRoom, MayAttach, Receive, Reply, ConnectionLost, Detach
  <2> QED BY <2>1 DEF LocalInv
<1>2. ASSUME NEW p \in Callers, SendCommand(p)
      PROVE  LocalInv'
  <2>1. /\ UNCHANGED dpc
        /\ \A d \in Disconnectors : target'[d] = target[d]
        /\ \A c \in Conns \ {p} : spc'[c] = spc[c] /\ hpc'[c] = hpc[c]
    BY <1>2 DEF Callers, SendCommand, SendLock, SendRefused, SendNow, SendBlock,
            SendUnblocked, SendTimeout, SendReturn
  <2>2. p \in Conns /\ spc'[p] \in {"locked", "blocked"} => hpc'[p] = "replying"
    BY <1>2 DEF LocalInv, SendCommand, SendLock, SendRefused, SendNow, SendBlock,
            SendUnblocked, SendTimeout, SendReturn
  <2> QED BY <2>1, <2>2 DEF LocalInv
<1>3. ASSUME NEW d \in Disconnectors, DisconnectDevice(d)
      PROVE  LocalInv'
  <2>1. /\ dpc'[d] # "called" /\ UNCHANGED <<hpc, spc>>
        /\ \A e \in Disconnectors \ {d} : dpc'[e] = dpc[e] /\ target'[e] = target[e]
    BY <1>3 DEF DisconnectDevice, DisconnectLock, DrainTest, DrainTake, QueueNotice, QueueNil
  <2> QED BY <2>1 DEF LocalInv
<1>4. CASE UNCHANGED vars
  BY <1>4 DEF vars, LocalInv
<1> QED BY <1>1, <1>2, <1>3, <1>4 DEF Next, Attach

-----------------------------------------------------------------------------
\* What a running handler has in its channel.
Content(c) ==
  \/ Plain(c)
  \/ \E d \in Disconnectors : target[d] = c /\ (Noticed(c, d) \/ Closing(c, d))

\* The next frame of a handler and what is left behind it.
LEMMA ReceiveEffect ==
  ASSUME TypeOK, NEW c \in Conns, Content(c), Receive(c)
  PROVE  \/ /\ Plain(c) /\ Head(channel[c]) = "command"
            /\ \A i \in 1..Len(channel'[c]) : channel'[c][i] = "command"
         \/ \E d \in Disconnectors :
              /\ target[d] = c
              /\ \/ /\ dpc[d] = "nil" /\ Head(channel[c]) = "notice" /\ channel'[c] = <<>>
                 \/ /\ dpc[d] = "done" /\ Head(channel[c]) = "notice"
                    /\ Len(channel'[c]) >= 1 /\ channel'[c][1] = "nil"
                 \/ /\ dpc[d] = "done" /\ Head(channel[c]) = "nil" /\ lastFrame[c] = "notice"
<1>1. channel[c] \in Seq(Frames) /\ channel[c] # <<>> /\ channel'[c] = Tail(channel[c])
  BY DEF Receive, TypeOK
<1>2. /\ Head(channel[c]) = channel[c][1]
      /\ Len(channel[c]) \in Nat /\ Len(channel[c]) >= 1
      /\ Len(channel'[c]) = Len(channel[c]) - 1
      /\ \A i \in 1..Len(channel'[c]) : channel'[c][i] = channel[c][i + 1]
  BY <1>1, TailOfChannel
<1>3. CASE Plain(c)
  <2>1. Head(channel[c]) = "command"
    BY <1>2, <1>3 DEF Plain
  <2>2. \A i \in 1..Len(channel'[c]) : i + 1 \in 1..Len(channel[c])
    BY <1>2
  <2>3. \A i \in 1..Len(channel'[c]) : channel'[c][i] = "command"
    BY <1>2, <1>3, <2>2 DEF Plain
  <2> QED BY <1>3, <2>1, <2>3
<1>4. ASSUME NEW d \in Disconnectors, target[d] = c, Noticed(c, d)
      PROVE  dpc[d] = "nil" /\ Head(channel[c]) = "notice" /\ channel'[c] = <<>>
  <2>1. dpc[d] = "nil" /\ channel[c] = <<"notice">>
    BY <1>1, <1>4 DEF Noticed
  <2>2. Head(<<"notice">>) = "notice" /\ Tail(<<"notice">>) = <<>>
    OBVIOUS
  <2> QED BY <1>1, <2>1, <2>2
<1>5. ASSUME NEW d \in Disconnectors, target[d] = c, Closing(c, d)
      PROVE  /\ dpc[d] = "done"
             /\ \/ /\ Head(channel[c]) = "notice"
                   /\ Len(channel'[c]) >= 1 /\ channel'[c][1] = "nil"
                \/ Head(channel[c]) = "nil" /\ lastFrame[c] = "notice"
  <2>1. CASE Len(channel[c]) >= 2 /\ channel[c][1] = "notice" /\ channel[c][2] = "nil"
    <3>1. Len(channel'[c]) >= 1 /\ 1 \in 1..Len(channel'[c])
      BY <1>2, <2>1
    <3>2. channel'[c][1] = channel[c][1 + 1]
      BY <1>2, <3>1
    <3> QED BY <1>2, <1>5, <2>1, <3>1, <3>2 DEF Closing
  <2>2. CASE channel[c][1] = "nil" /\ lastFrame[c] = "notice"
    BY <1>2, <1>5, <2>2 DEF Closing
  <2> QED BY <1>5, <2>1, <2>2 DEF Closing
<1> QED BY <1>3, <1>4, <1>5 DEF Content

\* A step that leaves the handler, its channel and its disconnects alone.
LEMMA ContentKept ==
  ASSUME NEW c \in Conns, Content(c), channel'[c] = channel[c], lastFrame'[c] = lastFrame[c],
         \A d \in Disconnectors : dpc'[d] = dpc[d] /\ target'[d] = target[d]
  PROVE  Content(c)'
BY DEF Content, Plain, Noticed, Closing

\* A command behind what a channel has.
LEMMA ContentCommand ==
  ASSUME TypeOK, LockInv, NEW c \in Conns, Content(c), writer = NoOne,
         channel'[c] = Append(channel[c], "command"), lastFrame'[c] = lastFrame[c],
         \A d \in Disconnectors : dpc'[d] = dpc[d] /\ target'[d] = target[d]
  PROVE  Content(c)'
<1>1. /\ Len(channel[c]) \in Nat
      /\ Len(channel'[c]) = Len(channel[c]) + 1
      /\ channel'[c][Len(channel[c]) + 1] = "command"
      /\ \A i \in 1..Len(channel[c]) : channel'[c][i] = channel[c][i]
  <2>1. channel[c] \in Seq(Frames) /\ "command" \in Frames
    BY DEF TypeOK, Frames
  <2> QED BY <2>1, AppendToChannel
<1>2. CASE Plain(c)
  <2>1. \A i \in 1..Len(channel'[c]) : i \in 1..Len(channel[c]) \/ i = Len(channel[c]) + 1
    BY <1>1
  <2>2. \A i \in 1..Len(channel'[c]) : channel'[c][i] = "command"
    BY <1>1, <1>2, <2>1 DEF Plain
  <2> QED BY <1>2, <2>2 DEF Plain, Content
<1>3. ASSUME NEW d \in Disconnectors, target[d] = c, Noticed(c, d)
      PROVE  FALSE
  BY <1>3, QueueAssumption DEF Noticed, LockInv, Inside
<1>4. ASSUME NEW d \in Disconnectors, target[d] = c, Closing(c, d)
      PROVE  Content(c)'
  <2>1. CASE Len(channel[c]) >= 2 /\ channel[c][1] = "notice" /\ channel[c][2] = "nil"
    <3>1. 1 \in 1..Len(channel[c]) /\ 2 \in 1..Len(channel[c])
      BY <1>1, <2>1
    <3>2. Len(channel'[c]) >= 2 /\ channel'[c][1] = "notice" /\ channel'[c][2] = "nil"
      BY <1>1, <2>1, <3>1
    <3> QED BY <1>4, <3>2 DEF Closing, Content
  <2>2. CASE Len(channel[c]) >= 1 /\ channel[c][1] = "nil" /\ lastFrame[c] = "notice"
    <3>1. 1 \in 1..Len(channel[c])
      BY <1>1, <2>2
    <3>2. Len(channel'[c]) >= 1 /\ channel'[c][1] = "nil" /\ lastFrame'[c] = "notice"
      BY <1>1, <2>2, <3>1
    <3> QED BY <1>4, <3>2 DEF Closing, Content
  <2> QED BY <1>4, <2>1, <2>2 DEF Closing
<1> QED BY <1>2, <1>3, <1>4 DEF Content

LEMMA ContentStep == QueueInv /\ [Next]_vars => ContentInv'
<1> SUFFICES ASSUME TypeOK, LockInv, ContentInv, EmptyInv, LocalInv, [Next]_vars,
                    NEW c \in Conns, hpc'[c] \in {"select", "replying"}, OneDisconnect(c)'
             PROVE  Content(c)'
  BY DEF QueueInv, ContentInv, Content
<1> USE QueueAssumption
<1>0. ASSUME UNCHANGED target, hpc[c] \in {"select", "replying"}
      PROVE  Content(c) /\ OneDisconnect(c)
  BY <1>0 DEF ContentInv, Content, OneDisconnect
<1>1. ASSUME NEW x \in Conns, AttachRoom(x)
      PROVE  Content(c)'
  <2>1. CASE x = c
    <3>1. channel'[c] = <<>> /\ lastFrame'[c] = "none"
      BY <1>1, <2>1 DEF AttachRoom, TypeOK
    <3>2. \A d \in Disconnectors : dpc'[d] # "nil"
      BY <1>1, NoHolders DEF AttachRoom, MayAttach, Inside
    <3>3. Plain(c)'
      BY <3>1, <3>2 DEF Plain
    <3> QED BY <3>3 DEF Content
  <2>2. CASE x # c
    <3>1. /\ hpc[c] = hpc'[c] /\ channel'[c] = channel[c] /\ lastFrame'[c] = lastFrame[c]
          /\ UNCHANGED <<target, dpc>>
      BY <1>1, <2>2 DEF AttachRoom, TypeOK
    <3> QED BY <1>0, <3>1, ContentKept
  <2> QED BY <2>1, <2>2
<1>2. ASSUME NEW x \in Conns, AttachLock(x) \/ Reply(x) \/ ConnectionLost(x)
      PROVE  Content(c)'
  <2>1. hpc[c] \in {"select", "replying"} /\ UNCHANGED <<channel, lastFrame, target, dpc>>
    BY <1>2 DEF AttachLock, Reply, ConnectionLost, TypeOK
  <2> QED BY <1>0, <2>1, ContentKept
<1>3. ASSUME NEW x \in Conns, Detach(x)
      PROVE  Content(c)'
  <2>1. x # c /\ hpc[c] = hpc'[c]
    BY <1>3 DEF Detach, TypeOK
  <2>2. channel'[c] = channel[c] /\ lastFrame'[c] = lastFrame[c] /\ UNCHANGED <<target, dpc>>
    BY <1>3, <2>1 DEF Detach, TypeOK
  <2> QED BY <1>0, <2>1, <2>2, ContentKept
<1>4. ASSUME NEW x \in Conns, Receive(x)
      PROVE  Content(c)'
  <2>0. UNCHANGED <<target, dpc>> /\ hpc[c] \in {"select", "replying"}
    BY <1>4 DEF Receive, TypeOK
  <2>1. CASE x # c
    <3>1. channel'[c] = channel[c] /\ lastFrame'[c] = lastFrame[c]
      BY <1>4, <2>1 DEF Receive, TypeOK
    <3> QED BY <1>0, <2>0, <3>1, ContentKept
  <2>2. CASE x = c
    <3>1. /\ Receive(c) /\ Content(c)
          /\ Head(channel[c]) # "nil" /\ lastFrame'[c] = Head(channel[c])
      BY <1>0, <1>4, <2>0, <2>2 DEF Receive, TypeOK
    <3>2. CASE /\ Plain(c) /\ Head(channel[c]) = "command"
               /\ \A i \in 1..Len(channel'[c]) : channel'[c][i] = "command"
      <4>1. Plain(c)'
        BY <2>0, <3>1, <3>2 DEF Plain
      <4> QED BY <4>1 DEF Content
    <3>3. ASSUME NEW d \in Disconnectors, target[d] = c, dpc[d] = "nil",
                 Head(channel[c]) = "notice", channel'[c] = <<>>
          PROVE  Content(c)'
      <4>1. Noticed(c, d)'
        BY <2>0, <3>1, <3>3 DEF Noticed
      <4> QED BY <2>0, <3>3, <4>1 DEF Content
    <3>4. ASSUME NEW d \in Disconnectors, target[d] = c, dpc[d] = "done",
                 Head(channel[c]) = "notice", Len(channel'[c]) >= 1, channel'[c][1] = "nil"
          PROVE  Content(c)'
      <4>1. Closing(c, d)'
        BY <2>0, <3>1, <3>4 DEF Closing
      <4> QED BY <2>0, <3>4, <4>1 DEF Content
    <3> QED BY <3>1, <3>2, <3>3, <3>4, ReceiveEffect
  <2> QED BY <2>1, <2>2
<1>5. ASSUME NEW p \in Callers, SendCommand(p)
      PROVE  Content(c)'
  <2>1. \A d \in Disconnectors : dpc'[d] = dpc[d] /\ target'[d] = target[d]
    BY <1>5, SendEffect DEF Callers
  <2>2. hpc[c] \in {"select", "replying"}
    <3>1. CASE p = c
      BY <1>5, <3>1 DEF LocalInv, SendCommand, SendLock, SendRefused, SendNow, SendBlock,
              SendUnblocked, SendTimeout, SendReturn
    <3>2. CASE p # c
      BY <1>5, <3>2 DEF TypeOK, SendCommand, SendLock, SendRefused, SendNow, SendBlock,
              SendUnblocked, SendTimeout, SendReturn
    <3> QED BY <3>1, <3>2
  <2>3. Content(c)
    BY <2>1, <2>2 DEF ContentInv, Content, OneDisconnect
  <2>4. lastFrame'[c] = lastFrame[c]
    BY <1>5, SendEffect
  <2>5. CASE channel'[c] = channel[c]
    BY <2>1, <2>3, <2>4, <2>5, ContentKept
  <2>6. CASE channel'[c] # channel[c]
    <3>1. writer = NoOne /\ channel' = [channel EXCEPT ![controls] = Append(@, "command")]
      BY <1>5, <2>6, SendEffect
    <3>2. channel'[c] = Append(channel[c], "command")
      BY <2>6, <3>1 DEF TypeOK
    <3> QED BY <2>1, <2>3, <2>4, <3>1, <3>2, ContentCommand
  <2> QED BY <2>5, <2>6
<1>6. ASSUME NEW d \in Disconnectors, DisconnectLock(d)
      PROVE  Content(c)'
  <2>1. /\ UNCHANGED <<hpc, channel, lastFrame>> /\ target[d] = NoConn
        /\ \A e \in Disconnectors \ {d} : dpc'[e] = dpc[e] /\ target'[e] = target[e]
        /\ dpc[d] = "called" /\ dpc'[d] # "nil"
    BY <1>6 DEF DisconnectLock, LocalInv, TypeOK
  <2>2. OneDisconnect(c)
    <3>1. SUFFICES ASSUME NEW e \in Disconnectors, NEW f \in Disconnectors,
                          target[e] = c, target[f] = c
                   PROVE  e = f
      BY DEF OneDisconnect
    <3>2. e # d /\ f # d
      BY <2>1, <3>1
    <3> QED BY <2>1, <3>1, <3>2 DEF OneDisconnect
  <2>3. Content(c)
    BY <2>1, <2>2 DEF ContentInv, Content
  <2>4. CASE Plain(c)
    <3>1. \A e \in Disconnectors : target'[e] = c => dpc'[e] # "nil"
      BY <2>1, <2>4 DEF Plain
    <3>2. Plain(c)'
      BY <2>1, <2>4, <3>1 DEF Plain
    <3> QED BY <3>2 DEF Content
  <2>5. ASSUME NEW e \in Disconnectors, target[e] = c, Noticed(c, e) \/ Closing(c, e)
        PROVE  Content(c)'
    <3>1. e # d
      BY <2>1, <2>5
    <3>2. target'[e] = c /\ (Noticed(c, e)' \/ Closing(c, e)')
      BY <2>1, <2>5, <3>1 DEF Noticed, Closing
    <3> QED BY <3>2 DEF Content
  <2> QED BY <2>3, <2>4, <2>5 DEF Content
<1>7. ASSUME NEW d \in Disconnectors,
             DrainTest(d) \/ DrainTake(d) \/ QueueNotice(d) \/ QueueNil(d)
      PROVE  Content(c)'
  <2>1. /\ target[d] = controls /\ controls \in Conns
        /\ UNCHANGED <<hpc, target, lastFrame>>
        /\ \A x \in Conns : x # controls => channel'[x] = channel[x]
        /\ \A e \in Disconnectors \ {d} : dpc'[e] = dpc[e]
    BY <1>7, DrainEffect
  <2>2. Content(c) /\ OneDisconnect(c)
    BY <1>0, <2>1
  <2>3. CASE c # controls
    <3>1. channel'[c] = channel[c] /\ \A e \in Disconnectors : target[e] = c => dpc'[e] = dpc[e]
      BY <2>1, <2>3
    <3> QED BY <2>1, <2>2, <3>1 DEF Content, Plain, Noticed, Closing
  <2>4. CASE c = controls
    <3>0. \A e \in Disconnectors : target[e] = c => e = d
      BY <2>1, <2>2, <2>4 DEF OneDisconnect
    <3>1. CASE DrainTest(d) \/ DrainTake(d)
      <4>1. dpc[d] \in {"drain", "take"} /\ dpc'[d] # "nil"
        BY <3>1 DEF DrainTest, DrainTake, TypeOK
      <4>2. Plain(c)
        BY <2>2, <3>0, <4>1 DEF Content, Noticed, Closing
      <4>3. \A i \in 1..Len(channel'[c]) : channel'[c][i] = "command"
        <5>1. CASE DrainTest(d)
          BY <4>2, <5>1 DEF DrainTest, Plain
        <5>2. CASE DrainTake(d)
          <6>1. /\ channel[c] \in Seq(Frames) /\ channel[c] # <<>>
                /\ channel'[c] = Tail(channel[c])
            BY <2>1, <2>4, <5>2 DEF DrainTake, TypeOK
          <6>2. /\ Len(channel[c]) \in Nat
                /\ Len(channel'[c]) = Len(channel[c]) - 1
                /\ \A i \in 1..Len(channel'[c]) : channel'[c][i] = channel[c][i + 1]
            BY <6>1, TailOfChannel
          <6>3. \A i \in 1..Len(channel'[c]) : i + 1 \in 1..Len(channel[c])
            BY <6>2
          <6> QED BY <4>2, <6>2, <6>3 DEF Plain
        <5> QED BY <3>1, <5>1, <5>2
      <4>4. Plain(c)'
        BY <2>1, <3>0, <4>1, <4>2, <4>3 DEF Plain
      <4> QED BY <4>4 DEF Content
    <3>2. CASE QueueNotice(d)
      <4>1. dpc'[d] = "nil" /\ channel[c] = <<>> /\ channel'[c] = Append(channel[c], "notice")
        BY <2>1, <2>4, <3>2 DEF QueueNotice, Farewell, EmptyInv, TypeOK
      <4>2. Noticed(c, d)'
        BY <4>1 DEF Noticed
      <4> QED BY <2>1, <2>4, <4>2 DEF Content
    <3>3. CASE QueueNil(d)
      <4>1. /\ dpc[d] = "nil" /\ dpc'[d] = "done" /\ channel'[c] = Append(channel[c], "nil")
        BY <2>1, <2>4, <3>3 DEF QueueNil, Farewell, TypeOK
      <4>2. Noticed(c, d)
        BY <2>1, <2>2, <2>4, <3>0, <4>1 DEF Content, Plain, Closing
      <4>3. /\ channel[c] \in Seq(Frames) /\ "nil" \in Frames
            /\ Len(channel'[c]) = Len(channel[c]) + 1
            /\ channel'[c][Len(channel[c]) + 1] = "nil"
            /\ \A i \in 1..Len(channel[c]) : channel'[c][i] = channel[c][i]
        <5>1. channel[c] \in Seq(Frames) /\ "nil" \in Frames
          BY DEF TypeOK, Frames
        <5> QED BY <4>1, <5>1, AppendToChannel
      <4>4. \/ Len(channel[c]) = 1 /\ channel[c][1] = "notice"
            \/ Len(channel[c]) = 0 /\ lastFrame[c] = "notice"
        <5>1. Len(<<"notice">>) = 1 /\ <<"notice">>[1] = "notice" /\ Len(<<>>) = 0
          OBVIOUS
        <5> QED BY <4>2, <5>1 DEF Noticed
      <4>5. Closing(c, d)'
        <5>1. CASE Len(channel[c]) = 1 /\ channel[c][1] = "notice"
          <6>1. Len(channel'[c]) = 2 /\ channel'[c][2] = "nil" /\ channel'[c][1] = "notice"
            BY <4>3, <5>1
          <6> QED BY <4>1, <6>1 DEF Closing
        <5>2. CASE Len(channel[c]) = 0 /\ lastFrame[c] = "notice"
          <6>1. Len(channel'[c]) = 1 /\ channel'[c][1] = "nil" /\ lastFrame'[c] = "notice"
            BY <2>1, <4>3, <5>2
          <6> QED BY <4>1, <6>1 DEF Closing
        <5> QED BY <4>4, <5>1, <5>2
      <4> QED BY <2>1, <2>4, <4>5 DEF Content
    <3> QED BY <1>7, <3>1, <3>2, <3>3
  <2> QED BY <2>3, <2>4
<1>8. CASE UNCHANGED vars
  BY <1>0, <1>8, ContentKept DEF vars
<1> QED BY <1>1, <1>2, <1>3, <1>4, <1>5, <1>6, <1>7, <1>8 DEF Next, Attach, DisconnectDevice

-----------------------------------------------------------------------------
LEMMA QueueInit == Init => QueueInv
<1> SUFFICES ASSUME Init
             PROVE  QueueInv
  OBVIOUS
<1>1. TypeOK /\ LockInv
  BY TypeInit, LockInit
<1>2. ContentInv /\ EmptyInv /\ LocalInv
  BY DEF Init, ContentInv, EmptyInv, LocalInv, Callers
<1> QED BY <1>1, <1>2 DEF QueueInv

LEMMA QueueStep == QueueInv /\ [Next]_vars => QueueInv'
BY TypeStep, LockStep, EmptyStep, LocalStep, ContentStep DEF QueueInv

\* The inductive invariant of the channels, their locks and their content.
THEOREM QueueInvariant == Spec => []QueueInv
BY QueueInit, QueueStep, PTL DEF Spec

\* The state keeps its types; in particular no channel ever holds more than its
\* capacity, whatever SendCommand and disconnectDevice queue into it.
THEOREM QueueTypeOK == Spec => []TypeOK
<1>1. QueueInv => TypeOK
  BY DEF QueueInv
<1> QED BY <1>1, QueueInvariant, PTL

\* AttachDevice never replaces a channel under a waiting SendCommand or under
\* disconnectDevice (hub.go): whoever holds a channel holds the room's.
THEOREM HeldIsCurrent == Spec => []HeldChannelIsCurrent
<1>1. QueueInv => HeldChannelIsCurrent
  BY DEF QueueInv, LockInv
<1> QED BY <1>1, QueueInvariant, PTL

\* The nil frame ends a handler only behind the notice, and nothing reaches the
\* device after the notice.
LEMMA NoticeStep == QueueInv /\ [Next]_vars => NoticeThenEnd
<1> SUFFICES ASSUME QueueInv, [Next]_vars, NEW c \in Conns, OneDisconnect(c)
             PROVE  /\ hpc[c] = "select" /\ hpc'[c] = "leaving" /\ channel'[c] # channel[c]
                         => lastFrame[c] = "notice"
                    /\ lastFrame[c] = "notice" => lastFrame'[c] \in {"notice", "none"}
  BY DEF NoticeThenEnd
<1> USE DEF QueueInv
<1>1. CASE Receive(c)
  <2>1. Content(c)
    BY <1>1 DEF Receive, ContentInv, Content
  <2>2. /\ Head(channel[c]) # "nil" => hpc'[c] = "select" /\ lastFrame'[c] = Head(channel[c])
        /\ Head(channel[c]) = "nil" => lastFrame'[c] = lastFrame[c]
    BY <1>1 DEF Receive, TypeOK
  <2>3. CASE Plain(c) /\ Head(channel[c]) = "command"
    BY <2>2, <2>3 DEF Plain
  <2>4. CASE Head(channel[c]) = "notice"
    BY <2>2, <2>4
  <2>5. CASE Head(channel[c]) = "nil" /\ lastFrame[c] = "notice"
    BY <2>2, <2>5
  <2> QED BY <1>1, <2>1, <2>3, <2>4, <2>5, ReceiveEffect
<1>2. CASE AttachRoom(c) \/ Detach(c)
  BY <1>2 DEF AttachRoom, MayAttach, Detach, TypeOK
<1>3. CASE /\ lastFrame'[c] = lastFrame[c]
           /\ channel'[c] = channel[c] \/ hpc'[c] # "leaving" \/ hpc[c] # "select"
  BY <1>3
<1>4. ASSUME NEW x \in Conns, Attach(x) \/ Receive(x) \/ Detach(x), x # c
      PROVE  lastFrame'[c] = lastFrame[c] /\ channel'[c] = channel[c]
  BY <1>4 DEF Attach, AttachLock, AttachRoom, Receive, Detach, TypeOK
<1>5. ASSUME NEW x \in Conns, AttachLock(x) \/ Reply(x) \/ ConnectionLost(x)
      PROVE  lastFrame'[c] = lastFrame[c] /\ channel'[c] = channel[c]
  BY <1>5 DEF AttachLock, Reply, ConnectionLost
<1>6. ASSUME NEW p \in Callers, SendCommand(p)
      PROVE  /\ lastFrame'[c] = lastFrame[c]
             /\ hpc'[c] # "leaving" \/ hpc[c] # "select"
  <2>1. UNCHANGED hpc \/ hpc' = [hpc EXCEPT ![p] = "select"]
    BY <1>6 DEF SendCommand, SendLock, SendRefused, SendNow, SendBlock,
            SendUnblocked, SendTimeout, SendReturn
  <2>2. hpc'[c] # "leaving" \/ hpc[c] # "select"
    BY <2>1 DEF TypeOK
  <2>3. lastFrame'[c] = lastFrame[c]
    BY <1>6, SendEffect
  <2> QED BY <2>2, <2>3
<1>7. ASSUME NEW d \in Disconnectors, DisconnectDevice(d)
      PROVE  lastFrame'[c] = lastFrame[c] /\ hpc'[c] = hpc[c]
  BY <1>7 DEF DisconnectDevice, DisconnectLock, DrainTest, DrainTake, QueueNotice, QueueNil
<1>8. CASE UNCHANGED vars
  BY <1>8 DEF vars
<1> QED BY <1>1, <1>2, <1>3, <1>4, <1>5, <1>6, <1>7, <1>8 DEF Next, Attach

\* A device hears nothing after the notice of its disconnect but the nil frame.
THEOREM NoticeLast == Spec => NoticeIsLast
BY NoticeStep, QueueInvariant, PTL DEF Spec, NoticeIsLast

-----------------------------------------------------------------------------
(***************************************************************************)
(* Why locks and channels do not block each other: commandMu is held while *)
(* its holder waits for room.mu, and room.mu by somebody who waits for     *)
(* nothing, unless a disconnect is stuck; and who is stuck stays so.       *)
(***************************************************************************)
\* Who is between the locking and the release of commandMu.
InCommand(p) ==
  spc[p] \in {"locked", "blocked"} \/ (p \in Conns /\ hpc[p] = "attaching")

\* It is the holder.
CommandInv == \A p \in Callers : InCommand(p) <=> commandMu = p

\* There is room for the nil frame behind the notice.
NilFits == \A d \in Disconnectors : dpc[d] = "nil" => Len(channel[target[d]]) <= 1

\* The next step of a disconnect that has locked the room is possible.
DisconnectGoesOn(d) ==
  \/ dpc[d] = "drain"
  \/ dpc[d] = "take" /\ channel[target[d]] # <<>>
  \/ dpc[d] \in {"notice", "nil"} /\ ~Full(target[d])

\* Somebody who holds a lock can go on.
HolderGoesOn ==
  \/ \E d \in Disconnectors : writer = d /\ DisconnectGoesOn(d)
  \/ \E c \in Conns : commandMu = c /\ MayAttach(c)
  \/ \E p \in Callers :
       /\ commandMu = p
       /\ spc[p] = "blocked" \/ (spc[p] = "locked" /\ CanRLock)

\* Locks that are held are not held for ever by each other.
NoLockCycle == commandMu # NoOne \/ writer # NoOne => HolderGoesOn \/ Stuck

LEMMA CommandStep == TypeOK /\ LocalInv /\ CommandInv /\ [Next]_vars => CommandInv'
<1> SUFFICES ASSUME TypeOK, LocalInv, CommandInv, [Next]_vars, NEW q \in Callers
             PROVE  InCommand(q)' <=> commandMu' = q
  BY DEF CommandInv
<1> USE QueueAssumption DEF TypeOK
<1>0. InCommand(q) <=> commandMu = q
  BY DEF CommandInv
<1>1. ASSUME NEW c \in Conns, AttachLock(c)
      PROVE  InCommand(q)' <=> commandMu' = q
  BY <1>0, <1>1 DEF AttachLock, InCommand, Callers
<1>2. ASSUME NEW c \in Conns, AttachRoom(c)
      PROVE  InCommand(q)' <=> commandMu' = q
  <2>1. c \in Callers /\ InCommand(c) /\ spc[c] \notin {"locked", "blocked"}
    BY <1>2 DEF AttachRoom, MayAttach, InCommand, Callers, LocalInv
  <2>2. commandMu = c
    BY <2>1 DEF CommandInv
  <2>3. q = c \/ ~InCommand(q)
    BY <1>0, <2>2
  <2>4. ~InCommand(q)'
    BY <1>2, <2>1, <2>3 DEF AttachRoom, MayAttach, InCommand
  <2> QED BY <1>2, <2>4 DEF AttachRoom, Callers
<1>3. ASSUME NEW c \in Conns, Receive(c) \/ Reply(c) \/ ConnectionLost(c) \/ Detach(c)
      PROVE  InCommand(q)' <=> commandMu' = q
  <2>1. /\ UNCHANGED <<commandMu, spc>>
        /\ hpc[c] # "attaching" /\ hpc'[c] # "attaching"
        /\ \A x \in Conns \ {c} : hpc'[x] = hpc[x]
    BY <1>3 DEF Receive, Reply, ConnectionLost, Detach
  <2> QED BY <1>0, <2>1 DEF InCommand
<1>4. ASSUME NEW p \in Callers, SendLock(p)
      PROVE  InCommand(q)' <=> commandMu' = q
  BY <1>0, <1>4 DEF SendLock, InCommand, Callers
<1>5. ASSUME NEW p \in Callers, SendBlock(p)
      PROVE  InCommand(q)' <=> commandMu' = q
  BY <1>0, <1>5 DEF SendBlock, InCommand
<1>6. ASSUME NEW p \in Callers, SendRefused(p) \/ SendNow(p) \/ SendUnblocked(p) \/ SendTimeout(p)
      PROVE  InCommand(q)' <=> commandMu' = q
  <2>1. spc[p] \in {"locked", "blocked"} /\ SendReturn(p)
    BY <1>6 DEF SendRefused, SendNow, SendUnblocked, SendTimeout
  <2>2. commandMu = p
    BY <2>1 DEF InCommand, CommandInv
  <2>3. q = p \/ ~InCommand(q)
    BY <1>0, <2>2
  <2>4. ~InCommand(q)'
    <3>1. CASE q = p
      BY <2>1, <3>1 DEF SendReturn, InCommand
    <3>2. CASE q # p
      <4>1. spc'[q] = spc[q] /\ (q \in Conns => hpc'[q] = hpc[q])
        BY <2>1, <3>2 DEF SendReturn
      <4> QED BY <2>3, <3>2, <4>1 DEF InCommand
    <3> QED BY <3>1, <3>2
  <2>5. commandMu' = NoOne
    BY <2>1 DEF SendReturn
  <2> QED BY <2>4, <2>5 DEF Callers
<1>7. ASSUME \/ \E d \in Disconnectors : DisconnectDevice(d)
             \/ UNCHANGED vars
      PROVE  InCommand(q)' <=> commandMu' = q
  <2>1. UNCHANGED <<commandMu, spc, hpc>>
    BY <1>7 DEF DisconnectDevice, DisconnectLock, DrainTest, DrainTake, QueueNotice, QueueNil, vars
  <2> QED BY <1>0, <2>1 DEF InCommand
<1> QED BY <1>1, <1>2, <1>3, <1>4, <1>5, <1>6, <1>7 DEF Next, Attach, SendCommand

\* Nobody sends into, replaces or empties a channel that a disconnect works on; its
\* handler may receive.
LEMMA OnlyReceived ==
  ASSUME QueueInv, [Next]_vars, NEW d \in Disconnectors, Inside(d), ~DisconnectDevice(d)
  PROVE  /\ dpc'[d] = dpc[d] /\ target'[d] = target[d] /\ target[d] \in Conns
         /\ \/ channel'[target[d]] = channel[target[d]]
            \/ channel[target[d]] # <<>> /\ channel'[target[d]] = Tail(channel[target[d]])
<1> USE QueueAssumption DEF QueueInv, TypeOK
<1>0. writer = d /\ Readers = {} /\ target[d] \in Conns
  BY DEF LockInv, Holders, Inside
<1>1. ASSUME NEW c \in Conns, AttachRoom(c) \/ Detach(c)
      PROVE  FALSE
  BY <1>0, <1>1 DEF AttachRoom, MayAttach, Detach, CanLock
<1>2. ASSUME NEW c \in Conns, Receive(c)
      PROVE  /\ dpc'[d] = dpc[d] /\ target'[d] = target[d]
             /\ \/ channel'[target[d]] = channel[target[d]]
                \/ channel[target[d]] # <<>> /\ channel'[target[d]] = Tail(channel[target[d]])
  BY <1>0, <1>2 DEF Receive
<1>3. ASSUME NEW p \in Callers, SendCommand(p)
      PROVE  dpc' = dpc /\ target'[d] = target[d] /\ channel' = channel
  <2>1. p # d
    BY DEF Callers
  <2> QED BY <1>0, <1>3, <2>1, SendEffect
<1>4. ASSUME NEW e \in Disconnectors, DisconnectDevice(e), e # d
      PROVE  FALSE
  <2>1. CASE DisconnectLock(e)
    BY <1>0, <2>1 DEF DisconnectLock, DisconnectMayLock, CanLock
  <2>2. CASE DrainTest(e) \/ DrainTake(e) \/ QueueNotice(e) \/ QueueNil(e)
    <3>1. Inside(e)
      BY <2>2 DEF DrainTest, DrainTake, QueueNotice, QueueNil, Inside
    <3> QED BY <1>0, <1>4, <3>1 DEF LockInv
  <2> QED BY <1>4, <2>1, <2>2 DEF DisconnectDevice
<1>5. ASSUME \/ \E c \in Conns : AttachLock(c) \/ Reply(c) \/ ConnectionLost(c)
             \/ UNCHANGED vars
      PROVE  dpc' = dpc /\ target' = target /\ channel' = channel
  BY <1>5 DEF AttachLock, Reply, ConnectionLost, vars
<1> QED BY <1>0, <1>1, <1>2, <1>3, <1>4, <1>5 DEF Next, Attach

LEMMA NilFitsStep == QueueInv /\ NilFits /\ [Next]_vars => NilFits'
<1> SUFFICES ASSUME QueueInv, NilFits, [Next]_vars,
                    NEW d \in Disconnectors, dpc'[d] = "nil"
             PROVE  Len(channel'[target'[d]]) <= 1
  BY DEF NilFits
<1> USE QueueAssumption DEF QueueInv, TypeOK
<1>1. CASE QueueNotice(d)
  <2>1. channel[target[d]] = <<>> /\ target[d] \in Conns /\ target'[d] = target[d]
    BY <1>1, DrainEffect DEF QueueNotice, EmptyInv
  <2>2. channel'[target[d]] = Append(<<>>, Farewell[1])
    BY <1>1, <2>1 DEF QueueNotice
  <2> QED BY <2>1, <2>2
<1>2. CASE DisconnectDevice(d) /\ ~QueueNotice(d)
  BY <1>2 DEF DisconnectDevice, DisconnectLock, DrainTest, DrainTake, QueueNil
<1>3. CASE ~DisconnectDevice(d)
  <2>1. dpc[d] = "nil" /\ Inside(d)
    <3>1. ASSUME \/ \E c \in Conns : Attach(c) \/ Receive(c) \/ Reply(c)
                                      \/ ConnectionLost(c) \/ Detach(c)
                 \/ UNCHANGED vars
          PROVE  dpc' = dpc
      BY <3>1 DEF Attach, AttachLock, AttachRoom, Receive, Reply, ConnectionLost, Detach, vars
    <3>2. ASSUME NEW p \in Callers, SendCommand(p)
          PROVE  dpc' = dpc
      BY <3>2, SendEffect
    <3>3. ASSUME NEW e \in Disconnectors, DisconnectDevice(e), e # d
          PROVE  dpc'[d] = dpc[d]
      BY <3>3 DEF DisconnectDevice, DisconnectLock, DrainTest, DrainTake, QueueNotice, QueueNil
    <3> QED BY <1>3, <3>1, <3>2, <3>3 DEF Next, Inside
  <2>2. Len(channel[target[d]]) <= 1 /\ target[d] \in Conns /\ target'[d] = target[d]
    BY <1>3, <2>1, OnlyReceived DEF NilFits
  <2>3. CASE channel'[target[d]] = channel[target[d]]
    BY <2>2, <2>3
  <2>4. CASE channel[target[d]] # <<>> /\ channel'[target[d]] = Tail(channel[target[d]])
    <3>1. channel[target[d]] \in Seq(Frames)
      BY <2>2
    <3>2. /\ Len(channel[target[d]]) \in Nat
          /\ Len(Tail(channel[target[d]])) = Len(channel[target[d]]) - 1
      BY <2>4, <3>1, TailOfChannel
    <3> QED BY <2>2, <2>4, <3>2
  <2> QED BY <1>3, <2>1, <2>2, <2>3, <2>4, OnlyReceived
<1> QED BY <1>1, <1>2, <1>3

LEMMA LockInvariant == Spec => [](QueueInv /\ CommandInv /\ NilFits)
<1>1. Init => CommandInv /\ NilFits
  BY QueueAssumption DEF Init, CommandInv, InCommand, NilFits, Callers
<1>2. QueueInv /\ CommandInv /\ NilFits /\ [Next]_vars => (CommandInv /\ NilFits)'
  BY CommandStep, NilFitsStep DEF QueueInv
<1> QED BY <1>1, <1>2, QueueInit, QueueStep, PTL DEF Spec

\* SendCommand, AttachDevice and disconnectDevice (hub.go) cannot block each other:
\* as long as commandMu or room.mu is held, somebody who holds one of them can take
\* his next step, unless a disconnect waits in its drain loop for a frame.
THEOREM LocksAreReleased == Spec => []NoLockCycle
<1>1. ASSUME QueueInv, CommandInv, NilFits, commandMu # NoOne \/ writer # NoOne, ~Stuck
      PROVE  HolderGoesOn
  <2> USE QueueAssumption DEF QueueInv, TypeOK
  <2>1. CASE writer # NoOne
    <3>1. writer \in Disconnectors /\ Inside(writer) /\ target[writer] \in Conns
      BY <1>1, <2>1 DEF LockInv, Holders, Inside
    <3>2. dpc[writer] = "take" => channel[target[writer]] # <<>>
      BY <1>1, <3>1 DEF Stuck
    <3>3. dpc[writer] = "notice" => ~Full(target[writer])
      BY <1>1, <3>1 DEF EmptyInv, Full
    <3>4. dpc[writer] = "nil" => ~Full(target[writer])
      BY <1>1, <3>1 DEF NilFits, Full
    <3> QED BY <1>1, <3>1, <3>2, <3>3, <3>4 DEF HolderGoesOn, DisconnectGoesOn, Inside
  <2>2. CASE writer = NoOne /\ commandMu # NoOne
    <3>1. commandMu \in Callers /\ InCommand(commandMu)
      BY <1>1, <2>2 DEF CommandInv
    <3>2. CASE spc[commandMu] \in {"locked", "blocked"}
      BY <2>2, <3>1, <3>2 DEF HolderGoesOn, CanRLock
    <3>3. CASE commandMu \in Conns /\ hpc[commandMu] = "attaching"
      <4>1. spc[commandMu] # "blocked"
        BY <1>1, <3>3 DEF LocalInv
      <4>2. \A p \in Callers : p # commandMu => spc[p] # "blocked"
        BY <1>1 DEF CommandInv, InCommand
      <4>3. Readers = {}
        BY <4>1, <4>2 DEF Readers
      <4> QED BY <2>2, <3>3, <4>3 DEF HolderGoesOn, MayAttach, CanLock
    <3> QED BY <3>1, <3>2, <3>3 DEF InCommand
  <2> QED BY <1>1, <2>1, <2>2
<1>2. QueueInv /\ CommandInv /\ NilFits => NoLockCycle
  BY <1>1 DEF NoLockCycle
<1> QED BY <1>2, LockInvariant, PTL

\* A disconnect that waits for a frame in its drain loop (hub.go, disconnectDevice)
\* waits for ever, with room.mu locked: nobody else can send or replace the
\* channel.  The run drain_race shows how it gets there.
THEOREM StuckForEver == Spec => [][Stuck => Stuck']_vars
<1>1. ASSUME QueueInv, [Next]_vars, Stuck
      PROVE  Stuck'
  <2>1. PICK d \in Disconnectors : dpc[d] = "take" /\ channel[target[d]] = <<>>
    BY <1>1 DEF Stuck
  <2>2. Inside(d) /\ ~DisconnectDevice(d)
    BY <2>1 DEF Inside, DisconnectDevice, DisconnectLock, DrainTest, DrainTake,
                QueueNotice, QueueNil
  <2> QED BY <1>1, <2>1, <2>2, OnlyReceived DEF Stuck
<1> QED BY <1>1, QueueInvariant, PTL DEF Spec

===============================================================================
