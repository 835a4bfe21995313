------------------------- MODULE SessionMuxProofs -------------------------
(***************************************************************************)
(* Proofs about SessionMux for any number of peers, sessions and messages  *)
(* and any capacities.                                                     *)
(***************************************************************************)
EXTENDS SessionMux, TLAPS

\* How the map, the numbers and the holders of sessions fit together.
MapInv ==
    /\ \A e \in Entries : Created(e) => sid[e] \in SIDs
    /\ \A s \in SIDs : sessions[s] # None => Created(sessions[s]) /\ sid[sessions[s]] = s
    /\ \A e \in closedCh : Created(e)
    /\ \A e \in Entries : holder[e] # "none" => Created(e)
    /\ \A i \in 1..Len(acceptCh) : Created(acceptCh[i])
    /\ reader \in {"offer", "send"} => current \in Entries /\ Created(current)
    /\ reader = "send" => message \in Messages
    /\ \A d \in dialled : Created(d) /\ sid[d] <= nextSID

\* The message readLoop carries to a channel has the number of that session.
CarriedNumber == reader = "send" => message.sid = sid[current]

\* ... and comes from its peer.
CarriedOwn ==
    reader = "send" => message.src = peer[current] /\ message.sid = sid[current]

MuxInv == TypeOK /\ MapInv /\ OpenIffMapped

StreamInv == CarriedOwn /\ OwnStreamOnly

\* A step under which the data readLoop receives for a number in use comes from the peer
\* whose session has that number.  dispatchData compares only the number.
NumbersApart ==
    \A p \in Peers, s \in SIDs : DispatchKnown(p, s) => peer[sessions[s]] = p

\* The initial state satisfies the inductive invariants.
LEMMA MuxInit == Init => MuxInv /\ CarriedNumber /\ StreamInv
<1> SUFFICES ASSUME Init PROVE MuxInv /\ CarriedNumber /\ StreamInv
  OBVIOUS
<1> USE BoundAssumption DEF Init, Created, SIDs
<1>1. TypeOK
  BY DEF TypeOK
<1>2. MapInv
  BY DEF MapInv
<1>3. OpenIffMapped /\ CarriedNumber /\ StreamInv
  BY DEF OpenIffMapped, StreamInv, CarriedNumber, CarriedOwn, OwnStreamOnly
<1> QED BY <1>1, <1>2, <1>3 DEF MuxInv

\* removeSession closes exactly the session it deletes.
LEMMA RemoveKeeps ==
    ASSUME MuxInv, NEW s \in SIDs, RemoveSession(s), UNCHANGED <<sid, peer, dialled>>
    PROVE  /\ OpenIffMapped'
           /\ sessions' \in [SIDs -> Entries \cup {None}] /\ closedCh' \subseteq Entries
           /\ \A t \in SIDs : sessions'[t] # None => sessions'[t] = sessions[t]
           /\ \A e \in closedCh' : Created(e)
  BY BoundAssumption
     DEF MuxInv, TypeOK, MapInv, OpenIffMapped, RemoveSession, Created

\* A session enters the map and gets its number and its peer; the others keep theirs.
LEMMA AddKeeps ==
    ASSUME MuxInv, NEW e \in Entries, Unused(e), NEW s \in SIDs, NEW p \in Peers,
           AddSession(e, s, p)
    PROVE  /\ sessions' \in [SIDs -> Entries \cup {None}]
           /\ sid' \in [Entries -> SIDs \cup {None}] /\ peer' \in [Entries -> Peers \cup {None}]
           /\ \A f \in Entries : Created(f)' <=> Created(f) \/ f = e
           /\ \A f \in Entries : f # e => sid'[f] = sid[f] /\ peer'[f] = peer[f]
           /\ sid'[e] = s /\ peer'[e] = p
           /\ \A t \in SIDs : sessions'[t] = IF t = s THEN e ELSE sessions[t]
           /\ ~Created(e)
<1> USE BoundAssumption DEF MuxInv, TypeOK, AddSession, Unused, Created
<1>1. /\ sessions' \in [SIDs -> Entries \cup {None}]
      /\ sid' \in [Entries -> SIDs \cup {None}] /\ peer' \in [Entries -> Peers \cup {None}]
      /\ \A f \in Entries : f # e => sid'[f] = sid[f] /\ peer'[f] = peer[f]
      /\ sid'[e] = s /\ peer'[e] = p
      /\ \A t \in SIDs : sessions'[t] = IF t = s THEN e ELSE sessions[t]
  OBVIOUS
<1>2. \A f \in Entries : Created(f)' <=> Created(f) \/ f = e
  BY <1>1
<1> QED BY <1>1, <1>2

\* The number was free, or NewSession takes it from an incoming session.
LEMMA AddKeepsOpen ==
    ASSUME MuxInv, NEW e \in Entries, Unused(e), NEW s \in SIDs, NEW p \in Peers,
           AddSession(e, s, p), UNCHANGED closedCh,
           \/ sessions[s] = None /\ UNCHANGED dialled
           \/ sessions[s] \notin dialled /\ dialled' = dialled \cup {e}
    PROVE  OpenIffMapped'
<1>1. /\ \A f \in Entries : Created(f)' <=> Created(f) \/ f = e
      /\ \A f \in Entries : f # e => sid'[f] = sid[f]
      /\ sid'[e] = s
      /\ \A t \in SIDs : sessions'[t] = IF t = s THEN e ELSE sessions[t]
      /\ ~Created(e)
  BY AddKeeps, Zenon
<1>2. /\ e \notin closedCh /\ e \notin dialled /\ dialled \subseteq Entries
      /\ dialled \subseteq dialled' /\ dialled' \subseteq dialled \cup {e}
  BY <1>1 DEF MuxInv, TypeOK, MapInv
<1> SUFFICES ASSUME NEW f \in Entries, Created(f)'
             PROVE  /\ sessions'[sid'[f]] = f => f \notin closedCh'
                    /\ f \notin closedCh' =>
                          \/ sessions'[sid'[f]] = f
                          \/ f \notin dialled' /\ \E d \in dialled' : sid'[d] = sid'[f]
  BY DEF OpenIffMapped
<1>3. CASE f = e
  BY <1>1, <1>2, <1>3
<1>4. CASE f # e
  <2>1. Created(f) /\ sid'[f] = sid[f] /\ sid[f] \in SIDs
    BY <1>1, <1>4 DEF MuxInv, MapInv
  <2>2. /\ sessions[sid[f]] = f => f \notin closedCh
        /\ f \notin closedCh =>
              \/ sessions[sid[f]] = f
              \/ f \notin dialled /\ \E d \in dialled : sid[d] = sid[f]
    BY <2>1 DEF MuxInv, OpenIffMapped
  <2>3. sessions'[sid'[f]] = f => f \notin closedCh'
    BY <1>1, <1>4, <2>1, <2>2
  <2>4. ASSUME f \notin dialled, NEW d \in dialled, sid[d] = sid[f]
        PROVE  f \notin dialled' /\ \E c \in dialled' : sid'[c] = sid'[f]
    BY <1>1, <1>2, <1>4, <2>1, <2>4
  <2>5. ASSUME f \notin closedCh', sessions[sid[f]] = f, sid[f] = s
        PROVE  f \notin dialled' /\ \E c \in dialled' : sid'[c] = sid'[f]
    <3>1. f \notin dialled /\ dialled' = dialled \cup {e}
      BY <2>5, BoundAssumption
    <3> QED BY <1>1, <1>4, <2>1, <2>5, <3>1
  <2> QED BY <1>1, <2>1, <2>2, <2>3, <2>4, <2>5
<1> QED BY <1>3, <1>4

\* ... and the map stays consistent with the numbers of the sessions.
LEMMA AddKeepsMap ==
    ASSUME MuxInv, NEW e \in Entries, Unused(e), NEW s \in SIDs, NEW p \in Peers,
           AddSession(e, s, p), UNCHANGED <<closedCh, acceptCh>>
    PROVE  /\ (\A f \in Entries : Created(f) => sid[f] \in SIDs)'
           /\ (\A t \in SIDs : sessions[t] # None => Created(sessions[t]) /\ sid[sessions[t]] = t)'
           /\ (\A f \in closedCh : Created(f))'
           /\ (\A i \in 1..Len(acceptCh) : Created(acceptCh[i]))'
<1>1. /\ \A f \in Entries : Created(f)' <=> Created(f) \/ f = e
      /\ \A f \in Entries : f # e => sid'[f] = sid[f] /\ peer'[f] = peer[f]
      /\ sid'[e] = s /\ peer'[e] = p
      /\ \A t \in SIDs : sessions'[t] = IF t = s THEN e ELSE sessions[t]
  BY AddKeeps
<1>2. (\A f \in Entries : Created(f) => sid[f] \in SIDs)'
  BY <1>1 DEF MuxInv, MapInv
<1>3. ASSUME NEW t \in SIDs, sessions'[t] # None
      PROVE  peer'[sessions'[t]] # None /\ sid'[sessions'[t]] = t
  <2>1. CASE t = s
    BY <1>1, <2>1, BoundAssumption
  <2>2. CASE t # s
    <3> DEFINE f == sessions[t]
    <3>1. f \in Entries /\ f = sessions'[t] /\ Created(f) /\ sid[f] = t
      BY <1>1, <1>3, <2>2 DEF MuxInv, TypeOK, MapInv
    <3>2. f # e
      BY <3>1 DEF Unused, Created
    <3> HIDE DEF f
    <3> QED BY <1>1, <3>1, <3>2 DEF Created
  <2> QED BY <2>1, <2>2
<1>4. (\A f \in closedCh : Created(f))'
  BY <1>1 DEF MuxInv, TypeOK, MapInv
<1>5. ASSUME NEW i \in 1..Len(acceptCh) PROVE peer'[acceptCh[i]] # None
  <2>1. acceptCh[i] \in Entries /\ Created(acceptCh[i])
    BY DEF MuxInv, TypeOK, MapInv
  <2> QED BY <1>1, <2>1 DEF Created
<1> QED BY <1>2, <1>3, <1>4, <1>5 DEF Created

\* The next number has not been given out: what the map holds under it is not dialled.
LEMMA NextIsNew ==
    ASSUME MuxInv, nextSID < MaxSID
    PROVE  nextSID + 1 \in SIDs /\ sessions[nextSID + 1] \notin dialled
<1>1. nextSID \in Nat /\ nextSID + 1 \in SIDs
  BY BoundAssumption DEF MuxInv, TypeOK, SIDs
<1>2. ASSUME sessions[nextSID + 1] \in dialled PROVE FALSE
  <2>1. sid[sessions[nextSID + 1]] = nextSID + 1
    BY <1>1, <1>2, BoundAssumption DEF MuxInv, TypeOK, MapInv
  <2> QED BY <1>1, <1>2, <2>1 DEF MuxInv, MapInv
<1> QED BY <1>1, <1>2

\* What a DATA envelope from a peer becomes is a message.
LEMMA NewMessage ==
    ASSUME MuxInv, received < MaxMsg, NEW p \in Peers, NEW s \in SIDs
    PROVE  [src |-> p, sid |-> s, n |-> received + 1] \in Messages
<1>1. received \in 0..MaxMsg
  BY DEF MuxInv, TypeOK
<1>2. received + 1 \in 1..MaxMsg
  BY <1>1, BoundAssumption
<1> QED BY <1>2, Zenon DEF Messages

\* A session that enters the map gets its number and its peer; the others keep theirs.
LEMMA AddShape ==
    ASSUME MuxInv, NEW e \in Entries, NEW s, NEW p \in Peers, AddSession(e, s, p)
    PROVE  /\ \A f \in Entries : Created(f)' <=> Created(f) \/ f = e
           /\ \A f \in Entries : f # e => sid'[f] = sid[f] /\ peer'[f] = peer[f]
           /\ sid'[e] = s /\ peer'[e] = p
<1>1. sid \in [Entries -> SIDs \cup {None}] /\ peer \in [Entries -> Peers \cup {None}]
  BY Zenon DEF MuxInv, TypeOK
<1>2. /\ \A f \in Entries : f # e => sid'[f] = sid[f] /\ peer'[f] = peer[f]
      /\ sid'[e] = s /\ peer'[e] = p
  BY <1>1 DEF AddSession
<1> QED BY <1>2, BoundAssumption DEF Created

----------------------------------------------------------------------------

\* Every step of the multiplexer keeps the types and the map consistent.
LEMMA MuxInductive == MuxInv /\ [Next]_vars => MuxInv'
<1> SUFFICES ASSUME MuxInv, [Next]_vars PROVE MuxInv'
  OBVIOUS
<1> USE BoundAssumption
\* Steps that touch neither the map, nor the numbers, nor the closed channels.
<1>1. ASSUME UNCHANGED <<sessions, sid, peer, closedCh, dialled>> PROVE OpenIffMapped'
  BY <1>1 DEF MuxInv, OpenIffMapped, Created
<1>2. CASE Connect \/ StreamLost
  <2>1. TypeOK'
    BY <1>2 DEF Connect, StreamLost, MuxInv, TypeOK
  <2>2. MapInv'
    BY <1>2 DEF Connect, StreamLost, MuxInv, MapInv, Created
  <2> QED BY <1>1, <1>2, <2>1, <2>2 DEF Connect, StreamLost, MuxInv
<1>3. ASSUME NEW e \in Entries, NEW p \in Peers, NEW s \in SIDs, DispatchNew(e, p, s)
      PROVE  MuxInv'
  <2> DEFINE m == [src |-> p, sid |-> s, n |-> received + 1]
  <2>1. m \in Messages
    <3>1. received < MaxMsg
      BY <1>3, Zenon DEF DispatchNew
    <3> QED BY <3>1, NewMessage, Zenon
  <2>2. recvCh' \in [Entries -> Seq(Messages)] /\ \A f \in Entries : Len(recvCh'[f]) <= RecvCap
    <3>1. <<m>> \in Seq(Messages) /\ Len(<<m>>) = 1
      BY <2>1
    <3>2. recvCh' = [recvCh EXCEPT ![e] = <<m>>]
      BY <1>3 DEF DispatchNew
    <3> HIDE DEF m
    <3> QED BY <3>1, <3>2 DEF MuxInv, TypeOK
  <2>3. TypeOK'
    BY <1>3, <2>2, AddKeeps DEF DispatchNew, MuxInv, TypeOK
  <2>4. OpenIffMapped'
    BY <1>3, AddKeepsOpen DEF DispatchNew
  <2>5. MapInv'
    <3>1. /\ \A f \in Entries : Created(f)' <=> Created(f) \/ f = e
          /\ \A f \in Entries : f # e => sid'[f] = sid[f]
          /\ sid'[e] = s
      BY <1>3, AddKeeps DEF DispatchNew
    <3>2. /\ \A f \in Entries : holder'[f] # "none" => Created(f)'
          /\ \A d \in dialled' : Created(d)' /\ sid'[d] <= nextSID'
      <4>1. UNCHANGED <<holder, dialled, nextSID>> /\ ~Created(e)
        BY <1>3, Zenon DEF DispatchNew, Unused, Created
      <4>2. /\ \A f \in Entries : holder[f] # "none" => Created(f)
            /\ \A d \in dialled : d \in Entries /\ Created(d) /\ sid[d] <= nextSID
        BY Zenon DEF MuxInv, TypeOK, MapInv
      <4>3. \A d \in dialled : Created(d)' /\ sid'[d] <= nextSID
        BY <3>1, <4>1, <4>2
      <4> QED BY <3>1, <4>1, <4>2, <4>3
    <3>3. reader' = "offer" /\ current' = e
      BY <1>3 DEF DispatchNew
    <3>4. (reader \in {"offer", "send"} => current \in Entries /\ Created(current))'
      BY <3>1, <3>3 DEF Created
    <3>5. reader' # "send" /\ UNCHANGED <<closedCh, acceptCh>>
      BY <3>3, <1>3 DEF DispatchNew
    <3>6. /\ (\A f \in Entries : Created(f) => sid[f] \in SIDs)'
          /\ (\A t \in SIDs : sessions[t] # None => Created(sessions[t]) /\ sid[sessions[t]] = t)'
          /\ (\A f \in closedCh : Created(f))'
          /\ (\A i \in 1..Len(acceptCh) : Created(acceptCh[i]))'
      BY <1>3, <3>5, AddKeepsMap DEF DispatchNew
    <3> QED BY <3>2, <3>4, <3>5, <3>6 DEF MapInv
  <2> QED BY <2>3, <2>4, <2>5 DEF MuxInv
<1>4. CASE Offer
  <2>1. current \in Entries /\ Created(current) /\ sid[current] \in SIDs
    BY <1>4 DEF Offer, MuxInv, MapInv
  <2>2. CASE Len(acceptCh) < AcceptCap /\ UNCHANGED <<sessions, closedCh>>
    <3>1. /\ acceptCh' = Append(acceptCh, current)
          /\ holder' = [holder EXCEPT ![current] = "acceptCh"]
      BY <1>4, <2>2 DEF Offer, MuxInv, TypeOK
    <3>2. acceptCh' \in Seq(Entries) /\ Len(acceptCh') = Len(acceptCh) + 1
      BY <2>1, <3>1 DEF MuxInv, TypeOK
    <3>3. TypeOK'
      BY <1>4, <2>1, <2>2, <3>1, <3>2 DEF Offer, MuxInv, TypeOK
    <3>4. \A i \in 1..Len(acceptCh') : Created(acceptCh'[i])
      BY <2>1, <3>1, <3>2 DEF MuxInv, TypeOK, MapInv
    <3>5. MapInv'
      BY <1>4, <2>1, <2>2, <3>1, <3>4 DEF Offer, MuxInv, TypeOK, MapInv, Created
    <3> QED BY <1>1, <1>4, <2>2, <3>3, <3>5 DEF Offer, MuxInv
  <2>3. CASE RemoveSession(sid[current]) /\ UNCHANGED <<acceptCh, holder>>
    <3>1. UNCHANGED <<sid, peer, dialled>>
      BY <1>4 DEF Offer
    <3>2. TypeOK'
      BY <1>4, <2>1, <2>3, <3>1, RemoveKeeps DEF Offer, MuxInv, TypeOK
    <3>3. MapInv'
      BY <1>4, <2>1, <2>3, <3>1, RemoveKeeps DEF Offer, MuxInv, MapInv, Created
    <3> QED BY <2>1, <2>3, <3>1, <3>2, <3>3, RemoveKeeps DEF MuxInv
  <2> QED BY <1>4, <2>2, <2>3 DEF Offer
<1>5. ASSUME NEW p \in Peers, NEW s \in SIDs, DispatchKnown(p, s) PROVE MuxInv'
  <2>1. message' \in Messages
    BY <1>5 DEF DispatchKnown, Messages, MuxInv, TypeOK
  <2>2. sessions[s] \in Entries /\ Created(sessions[s])
    BY <1>5 DEF DispatchKnown, MuxInv, TypeOK, MapInv
  <2>3. TypeOK'
    BY <1>5, <2>1, <2>2 DEF DispatchKnown, MuxInv, TypeOK
  <2>4. MapInv'
    BY <1>5, <2>1, <2>2 DEF DispatchKnown, MuxInv, MapInv, Created
  <2> QED BY <1>1, <1>5, <2>3, <2>4 DEF DispatchKnown, MuxInv
<1>6. CASE SafeSend
  <2>1. current \in Entries /\ message \in Messages
    BY <1>6 DEF SafeSend, MuxInv, MapInv
  <2>2. recvCh' \in [Entries -> Seq(Messages)] /\ \A f \in Entries : Len(recvCh'[f]) <= RecvCap
    <3>1. CASE recvCh' = recvCh
      BY <3>1 DEF MuxInv, TypeOK
    <3>2. CASE /\ recvCh' = [recvCh EXCEPT ![current] = Append(@, message)]
               /\ Len(recvCh[current]) < RecvCap
      <4>1. recvCh[current] \in Seq(Messages)
        BY <2>1 DEF MuxInv, TypeOK
      <4>2. /\ Append(recvCh[current], message) \in Seq(Messages)
            /\ Len(Append(recvCh[current], message)) <= RecvCap
        BY <2>1, <3>2, <4>1
      <4> QED BY <2>1, <3>2, <4>2 DEF MuxInv, TypeOK
    <3> QED BY <1>6, <3>1, <3>2 DEF SafeSend
  <2>3. TypeOK'
    BY <1>6, <2>2 DEF SafeSend, MuxInv, TypeOK
  <2>4. MapInv'
    BY <1>6 DEF SafeSend, MuxInv, MapInv, Created
  <2> QED BY <1>1, <1>6, <2>3, <2>4 DEF SafeSend, MuxInv
<1>7. CASE CloseAllSessions
  <2>1. TypeOK'
    BY <1>7 DEF CloseAllSessions, MuxInv, TypeOK
  <2>2. MapInv'
    BY <1>7 DEF CloseAllSessions, MuxInv, TypeOK, MapInv, Created
  <2>3. OpenIffMapped'
    BY <1>7 DEF CloseAllSessions, MuxInv, TypeOK, MapInv, OpenIffMapped, Created
  <2> QED BY <2>1, <2>2, <2>3 DEF MuxInv
<1>8. ASSUME NEW e \in Entries, NEW p \in Peers, NewSession(e, p) PROVE MuxInv'
  <2>1. nextSID + 1 \in SIDs /\ sessions[nextSID + 1] \notin dialled
    BY <1>8, NextIsNew DEF NewSession
  <2>2. TypeOK'
    BY <1>8, <2>1, AddKeeps DEF NewSession, readerVars, MuxInv, TypeOK
  <2>3. OpenIffMapped'
    BY <1>8, <2>1, AddKeepsOpen DEF NewSession
  <2>4. MapInv'
    <3>1. /\ \A f \in Entries : Created(f)' <=> Created(f) \/ f = e
          /\ \A f \in Entries : f # e => sid'[f] = sid[f]
          /\ sid'[e] = nextSID + 1
      BY <1>8, <2>1, AddKeeps DEF NewSession
    <3>2. \A f \in Entries : holder'[f] # "none" => Created(f)'
      BY <1>8, <3>1 DEF NewSession, MuxInv, TypeOK, MapInv
    <3>3. ASSUME NEW d \in dialled' PROVE Created(d)' /\ sid'[d] <= nextSID'
      <4>1. nextSID' = nextSID + 1 /\ nextSID \in Nat /\ dialled' = dialled \cup {e}
        BY <1>8 DEF NewSession, MuxInv, TypeOK
      <4>2. CASE d = e
        BY <3>1, <4>1, <4>2
      <4>3. CASE d # e
        <5>1. d \in Entries /\ Created(d) /\ sid[d] <= nextSID /\ sid[d] \in SIDs
          BY <4>1, <4>3 DEF MuxInv, TypeOK, MapInv
        <5> QED BY <3>1, <4>1, <4>3, <5>1 DEF SIDs
      <4> QED BY <4>2, <4>3
    <3>4. /\ (reader \in {"offer", "send"} => current \in Entries /\ Created(current))'
          /\ (reader = "send" => message \in Messages)'
      BY <1>8, <3>1 DEF NewSession, readerVars, MuxInv, MapInv, Created
    <3>5. UNCHANGED <<closedCh, acceptCh>>
      BY <1>8 DEF NewSession
    <3>6. /\ (\A f \in Entries : Created(f) => sid[f] \in SIDs)'
          /\ (\A t \in SIDs : sessions[t] # None => Created(sessions[t]) /\ sid[sessions[t]] = t)'
          /\ (\A f \in closedCh : Created(f))'
          /\ (\A i \in 1..Len(acceptCh) : Created(acceptCh[i]))'
      BY <1>8, <2>1, <3>5, AddKeepsMap DEF NewSession
    <3> QED BY <3>2, <3>3, <3>4, <3>6 DEF MapInv
  <2> QED BY <2>2, <2>3, <2>4 DEF MuxInv
<1>9. CASE TakeIncoming
  <2>1. acceptCh \in Seq(Entries) /\ acceptCh # <<>>
    BY <1>9 DEF TakeIncoming, MuxInv, TypeOK
  <2>2. /\ Head(acceptCh) = acceptCh[1] /\ 1 \in 1..Len(acceptCh)
        /\ Tail(acceptCh) \in Seq(Entries) /\ Len(Tail(acceptCh)) = Len(acceptCh) - 1
        /\ \A i \in 1..Len(Tail(acceptCh)) :
               Tail(acceptCh)[i] = acceptCh[i + 1] /\ i + 1 \in 1..Len(acceptCh)
    BY <2>1
  <2>3. Head(acceptCh) \in Entries /\ Created(Head(acceptCh))
    BY <2>1, <2>2 DEF MuxInv, MapInv
  <2>4. TypeOK'
    BY <1>9, <2>1, <2>2, <2>3 DEF TakeIncoming, readerVars, MuxInv, TypeOK
  <2>5. MapInv'
    BY <1>9, <2>1, <2>2, <2>3 DEF TakeIncoming, readerVars, MuxInv, TypeOK, MapInv, Created
  <2> QED BY <1>1, <1>9, <2>4, <2>5 DEF TakeIncoming, MuxInv
<1>10. ASSUME NEW e \in Entries, Read(e) PROVE MuxInv'
  <2>1. recvCh[e] \in Seq(Messages) /\ recvCh[e] # <<>> /\ got[e] \in Seq(Messages)
    BY <1>10 DEF Read, MuxInv, TypeOK
  <2>2. /\ Tail(recvCh[e]) \in Seq(Messages) /\ Len(Tail(recvCh[e])) <= Len(recvCh[e])
        /\ Append(got[e], Head(recvCh[e])) \in Seq(Messages)
    BY <2>1
  <2>3. Len(recvCh[e]) \in Nat /\ Len(Tail(recvCh[e])) \in Nat
    BY <2>1, <2>2
  <2>4. TypeOK'
    BY <1>10, <2>2, <2>3 DEF Read, readerVars, MuxInv, TypeOK
  <2>5. MapInv'
    BY <1>10 DEF Read, readerVars, MuxInv, MapInv, Created
  <2> QED BY <1>1, <1>10, <2>4, <2>5 DEF Read, MuxInv
<1>11. ASSUME NEW e \in Entries, ReadEOF(e) PROVE MuxInv'
  <2>1. TypeOK'
    BY <1>11 DEF ReadEOF, readerVars, MuxInv, TypeOK
  <2>2. MapInv'
    BY <1>11 DEF ReadEOF, readerVars, MuxInv, MapInv, Created
  <2> QED BY <1>1, <1>11, <2>1, <2>2 DEF ReadEOF, MuxInv
<1>12. ASSUME NEW e \in Entries, Close(e) PROVE MuxInv'
  <2>1. sid[e] \in SIDs
    BY <1>12 DEF Held, Close, MuxInv, MapInv
  <2>2. TypeOK'
    BY <1>12, <2>1, RemoveKeeps, ZenonT(30) DEF Close, readerVars, MuxInv, TypeOK
  <2>3. MapInv'
    <3>1. UNCHANGED <<sid, peer, acceptCh, nextSID, dialled, readerVars>> /\ RemoveSession(sid[e])
      BY <1>12 DEF Close
    <3>2. \A f \in Entries : holder'[f] # "none" => Created(f)
      BY <1>12 DEF Close, Held, MuxInv, TypeOK, MapInv
    <3>3. /\ \A t \in SIDs : sessions'[t] # None => sessions'[t] = sessions[t]
          /\ \A f \in closedCh' : Created(f)
      BY <2>1, <3>1, RemoveKeeps
    <3> QED BY <3>1, <3>2, <3>3 DEF readerVars, MuxInv, MapInv, Created
  <2> QED BY <1>12, <2>1, <2>2, <2>3, RemoveKeeps DEF Close, MuxInv
<1>13. CASE UNCHANGED vars
  BY <1>13 DEF vars, readerVars, MuxInv, TypeOK, MapInv, OpenIffMapped, Created
<1> QED BY <1>2, <1>3, <1>4, <1>5, <1>6, <1>7, <1>8, <1>9, <1>10, <1>11, <1>12, <1>13
       DEF Next

\* MuxInv is an invariant of the multiplexer.
LEMMA MuxInvariant == Spec => []MuxInv
<1>1. Init => MuxInv
  BY MuxInit
<1> QED BY <1>1, MuxInductive, PTL DEF Spec

\* TypeOK, with the capacities of the channels, is an invariant of the multiplexer.
THEOREM MuxTypeCorrect == Spec => []TypeOK
<1>1. MuxInv => TypeOK
  BY DEF MuxInv
<1> QED BY <1>1, MuxInvariant, PTL

\* In either role, no closed session is in the sessions map, and an open session is out of
\* it only when NewSession (proxy.go:267) has given its number to another one.
THEOREM MuxMapsOpen == Spec => []OpenIffMapped
<1>1. MuxInv => OpenIffMapped
  BY DEF MuxInv
<1> QED BY <1>1, MuxInvariant, PTL

----------------------------------------------------------------------------
(* Data reaches the session it belongs to, when the numbers of the peers are apart. *)

\* With a single peer, there is no other the data could come from.
LEMMA OnePeerNumbersApart ==
    ASSUME \A p, q \in Peers : p = q, MuxInv
    PROVE  NumbersApart
<1> SUFFICES ASSUME NEW p \in Peers, NEW s \in SIDs, DispatchKnown(p, s)
             PROVE  peer[sessions[s]] = p
  BY DEF NumbersApart
<1>1. sessions[s] \in Entries /\ Created(sessions[s])
  BY DEF DispatchKnown, MuxInv, TypeOK, MapInv
<1>2. peer[sessions[s]] \in Peers
  BY <1>1 DEF Created, MuxInv, TypeOK
<1> QED BY <1>2

\* While the numbers of the peers are apart, every step keeps the streams apart.
LEMMA StreamInductive ==
    MuxInv /\ StreamInv /\ [Next]_vars /\ [NumbersApart]_vars => StreamInv'
<1> SUFFICES ASSUME MuxInv, StreamInv, [Next]_vars, [NumbersApart]_vars PROVE StreamInv'
  OBVIOUS
<1> USE BoundAssumption
\* Steps that create no session and put nothing into a channel.
<1>1. ASSUME UNCHANGED <<sid, peer, recvCh>>, reader' # "send" \/ UNCHANGED readerVars
      PROVE  StreamInv'
  BY <1>1 DEF StreamInv, CarriedOwn, OwnStreamOnly, readerVars
<1>2. ASSUME NEW e \in Entries, NEW p \in Peers, NEW s \in SIDs, DispatchNew(e, p, s)
      PROVE  StreamInv'
  <2>1. /\ \A f \in Entries : f # e => sid'[f] = sid[f] /\ peer'[f] = peer[f]
        /\ sid'[e] = s /\ peer'[e] = p
    <3>1. AddSession(e, s, p)
      BY <1>2, Zenon DEF DispatchNew
    <3> QED BY <3>1, AddShape, Zenon
  <2>2. CarriedOwn'
    BY <1>2 DEF DispatchNew, CarriedOwn
  <2>3. OwnStreamOnly'
    <3> DEFINE m == [src |-> p, sid |-> s, n |-> received + 1]
    <3>1. recvCh' = [recvCh EXCEPT ![e] = <<m>>] /\ m.src = p /\ m.sid = s
      BY <1>2 DEF DispatchNew
    <3> HIDE DEF m
    <3>2. \A f \in Entries : recvCh'[f] = IF f = e THEN <<m>> ELSE recvCh[f]
      BY <3>1 DEF MuxInv, TypeOK
    <3> QED BY <2>1, <3>1, <3>2 DEF StreamInv, OwnStreamOnly
  <2> QED BY <2>2, <2>3 DEF StreamInv
<1>3. ASSUME NEW p \in Peers, NEW s \in SIDs, DispatchKnown(p, s) PROVE StreamInv'
  <2> DEFINE e == sessions[s]
  <2>1. e \in Entries /\ sid[e] = s
    BY <1>3 DEF DispatchKnown, MuxInv, TypeOK, MapInv
  <2>2. peer[e] = p
    <3>1. received' # received
      BY <1>3 DEF DispatchKnown, MuxInv, TypeOK
    <3>2. NumbersApart
      BY <3>1 DEF vars
    <3> QED BY <1>3, <3>2 DEF NumbersApart
  <2>3. CarriedOwn'
    BY <1>3, <2>1, <2>2 DEF DispatchKnown, CarriedOwn
  <2>4. OwnStreamOnly'
    BY <1>3 DEF DispatchKnown, StreamInv, OwnStreamOnly
  <2> QED BY <2>3, <2>4 DEF StreamInv
<1>4. CASE SafeSend
  <2>1. /\ current \in Entries /\ message \in Messages
        /\ message.src = peer[current] /\ message.sid = sid[current]
    BY <1>4 DEF SafeSend, MuxInv, MapInv, StreamInv, CarriedOwn
  <2>2. CarriedOwn'
    BY <1>4 DEF SafeSend, CarriedOwn
  <2>3. CASE recvCh' = recvCh
    BY <1>4, <2>2, <2>3 DEF SafeSend, StreamInv, OwnStreamOnly
  <2>4. CASE recvCh' = [recvCh EXCEPT ![current] = Append(@, message)]
    <3>1. recvCh[current] \in Seq(Messages)
      BY <2>1 DEF MuxInv, TypeOK
    <3>2. \A i \in 1..Len(recvCh'[current]) :
              \/ recvCh'[current][i] = message
              \/ i \in 1..Len(recvCh[current]) /\ recvCh'[current][i] = recvCh[current][i]
      <4>1. recvCh'[current] = Append(recvCh[current], message)
        BY <2>1, <2>4 DEF MuxInv, TypeOK
      <4>2. /\ Len(Append(recvCh[current], message)) = Len(recvCh[current]) + 1
            /\ Len(recvCh[current]) \in Nat
            /\ \A i \in 1..(Len(recvCh[current]) + 1) :
                   Append(recvCh[current], message)[i] =
                       IF i = Len(recvCh[current]) + 1 THEN message ELSE recvCh[current][i]
        BY <2>1, <3>1
      <4> QED BY <4>1, <4>2
    <3>3. \A f \in Entries : f # current => recvCh'[f] = recvCh[f]
      BY <2>1, <2>4 DEF MuxInv, TypeOK
    <3>4. OwnStreamOnly'
      BY <1>4, <2>1, <3>2, <3>3 DEF SafeSend, StreamInv, OwnStreamOnly
    <3> QED BY <2>2, <3>4 DEF StreamInv
  <2> QED BY <1>4, <2>3, <2>4 DEF SafeSend
<1>5. ASSUME NEW e \in Entries, NEW p \in Peers, NewSession(e, p) PROVE StreamInv'
  <2>2. \A f \in Entries : f # e => sid'[f] = sid[f] /\ peer'[f] = peer[f]
    <3>1. AddSession(e, nextSID + 1, p)
      BY <1>5, Zenon DEF NewSession
    <3> QED BY <3>1, AddShape, Zenon
  <2>3. ~Created(e)
    BY <1>5 DEF NewSession, Unused, Created
  <2>4. CarriedOwn'
    <3> SUFFICES ASSUME reader' = "send"
                 PROVE  message'.src = peer'[current'] /\ message'.sid = sid'[current']
      BY DEF CarriedOwn
    <3>1. reader = "send" /\ UNCHANGED readerVars
      BY <1>5 DEF NewSession, readerVars
    <3>2. current \in Entries /\ current # e
      BY <2>3, <3>1 DEF MuxInv, MapInv
    <3> QED BY <2>2, <3>1, <3>2 DEF StreamInv, CarriedOwn, readerVars
  <2>5. recvCh' = recvCh
    BY <1>5 DEF NewSession
  <2>6. \A i \in 1..Len(recvCh[e]) : FALSE
    <3> SUFFICES ASSUME NEW i \in 1..Len(recvCh[e]) PROVE FALSE
      OBVIOUS
    <3>0. recvCh[e] \in Seq(Messages)
      BY DEF MuxInv, TypeOK
    <3>1. recvCh[e][i] \in Messages
      BY <3>0
    <3>2. recvCh[e][i].src \in Peers /\ recvCh[e][i].src = peer[e]
      BY <3>1 DEF Messages, StreamInv, OwnStreamOnly
    <3> QED BY <2>3, <3>2 DEF Created
  <2>7. OwnStreamOnly'
    BY <2>2, <2>5, <2>6 DEF StreamInv, OwnStreamOnly
  <2> QED BY <2>4, <2>7 DEF StreamInv
<1>6. ASSUME NEW e \in Entries, Read(e) PROVE StreamInv'
  <2>1. recvCh[e] \in Seq(Messages) /\ recvCh[e] # <<>>
    BY <1>6 DEF Read, MuxInv, TypeOK
  <2>2. \A i \in 1..Len(Tail(recvCh[e])) :
            Tail(recvCh[e])[i] = recvCh[e][i + 1] /\ i + 1 \in 1..Len(recvCh[e])
    BY <2>1
  <2>3. \A f \in Entries : recvCh'[f] = IF f = e THEN Tail(recvCh[e]) ELSE recvCh[f]
    BY <1>6 DEF Read, MuxInv, TypeOK
  <2>4. OwnStreamOnly'
    <3>1. peer' = peer /\ sid' = sid
      BY <1>6 DEF Read
    <3>2. \A f \in Entries : \A i \in 1..Len(recvCh[f]) :
              recvCh[f][i].src = peer[f] /\ recvCh[f][i].sid = sid[f]
      BY Zenon DEF StreamInv, OwnStreamOnly
    <3> SUFFICES ASSUME NEW f \in Entries, NEW i \in 1..Len(recvCh'[f])
                 PROVE  recvCh'[f][i].src = peer[f] /\ recvCh'[f][i].sid = sid[f]
      BY <3>1, Zenon DEF OwnStreamOnly
    <3>3. CASE f = e
      <4>1. recvCh'[f] = Tail(recvCh[f])
        BY <2>3, <3>3, Zenon
      <4>2. i \in 1..Len(Tail(recvCh[f]))
        BY <4>1, Zenon
      <4>3. Tail(recvCh[f])[i] = recvCh[f][i + 1] /\ i + 1 \in 1..Len(recvCh[f])
        BY <2>2, <3>3, <4>2
      <4>4. recvCh[f][i + 1].src = peer[f] /\ recvCh[f][i + 1].sid = sid[f]
        BY <3>2, <4>3, Zenon
      <4> QED BY <4>1, <4>3, <4>4
    <3>4. CASE f # e
      <4>1. recvCh'[f] = recvCh[f]
        BY <2>3, <3>4, Zenon
      <4> QED BY <3>2, <4>1, Zenon
    <3> QED BY <3>3, <3>4, Zenon
  <2>5. CarriedOwn'
    BY <1>6 DEF Read, readerVars, StreamInv, CarriedOwn
  <2> QED BY <2>4, <2>5 DEF StreamInv
<1>7. CASE Connect \/ StreamLost \/ CloseAllSessions \/ Offer
  BY <1>1, <1>7 DEF Connect, StreamLost, CloseAllSessions, Offer
<1>8. CASE TakeIncoming
  BY <1>1, <1>8 DEF TakeIncoming
<1>9. ASSUME NEW e \in Entries, ReadEOF(e) \/ Close(e) PROVE StreamInv'
  BY <1>1, <1>9 DEF ReadEOF, Close
<1>10. CASE UNCHANGED vars
  BY <1>1, <1>10 DEF vars
<1> QED BY <1>2, <1>3, <1>4, <1>5, <1>6, <1>7, <1>8, <1>9, <1>10 DEF Next

\* In either role, and for any number of peers, a session receives data of its own stream
\* only as long as no peer sends under the number of another peer's open session: the
\* comparison of numbers is all that dispatchData lacks.  What arrives late, or between
\* the unlock and the send, or for a session that has been closed, does no harm.
THEOREM StreamsSeparateApart == Spec /\ [][NumbersApart]_vars => []OwnStreamOnly
<1>1. Init => StreamInv
  BY MuxInit
<1>2. StreamInv => OwnStreamOnly
  BY DEF StreamInv
<1> QED BY <1>1, <1>2, MuxInvariant, StreamInductive, PTL DEF Spec

\* The numbers are apart on a node of either role that has a single peer.
THEOREM OnePeerApart ==
    ASSUME \A p, q \in Peers : p = q PROVE Spec => [][NumbersApart]_vars
<1>1. MuxInv => NumbersApart
  BY OnePeerNumbersApart
<1> QED BY <1>1, MuxInvariant, PTL

----------------------------------------------------------------------------
(* The sessions keep the order of arrival. *)

\* The numbers of q grow, and the numbers of r continue those of q.
Growing(q) == \A i, j \in 1..Len(q) : i < j => q[i].n < q[j].n
Continues(q, r) == \A i \in 1..Len(q), j \in 1..Len(r) : q[i].n < r[j].n

\* The numbers of q are at most b.
AtMost(q, b) == \A i \in 1..Len(q) : q[i].n <= b

\* What a session has held is ordered and was counted when it arrived; the message
\* readLoop carries outside the lock is the newest and nowhere else yet.
OrderInv ==
    /\ \A e \in Entries :
          /\ Growing(got[e]) /\ Growing(recvCh[e]) /\ Continues(got[e], recvCh[e])
          /\ AtMost(got[e], received) /\ AtMost(recvCh[e], received)
    /\ reader = "send" =>
          /\ message.n = received
          /\ \A e \in Entries :
                AtMost(got[e], received - 1) /\ AtMost(recvCh[e], received - 1)

----------------------------------------------------------------------------
(* Ordered sequences of messages. *)

\* Messages whose numbers are at most r - 1 have numbers below r.
LEMMA OlderThanLast ==
    ASSUME NEW q, NEW r \in Nat, \A i \in 1..Len(q) : q[i] \in Messages, AtMost(q, r - 1)
    PROVE  \A i \in 1..Len(q) : q[i].n < r
<1> SUFFICES ASSUME NEW i \in 1..Len(q) PROVE q[i].n < r
  OBVIOUS
<1>1. q[i].n <= r - 1
  BY Zenon DEF AtMost
<1>2. q[i].n \in Nat
  <2>1. q[i] \in Messages
    OBVIOUS
  <2> QED BY <2>1 DEF Messages
<1> DEFINE k == q[i].n
<1> HIDE DEF k
<1>3. k <= r - 1 /\ k \in Nat
  BY <1>1, <1>2, Zenon DEF k
<1>4. k < r
  BY <1>3
<1> QED BY <1>4, Zenon DEF k

\* A message newer than all that is there may follow it.
LEMMA AppendGrows ==
    ASSUME NEW q \in Seq(Messages), NEW r \in Seq(Messages), NEW m \in Messages,
           NEW b \in Nat, m.n = b, Growing(r), Continues(q, r),
           AtMost(q, b - 1), AtMost(r, b - 1)
    PROVE  Growing(Append(r, m)) /\ Continues(q, Append(r, m)) /\ AtMost(Append(r, m), b)
<1> DEFINE a == Append(r, m)
<1>1. /\ Len(a) = Len(r) + 1 /\ Len(r) \in Nat
      /\ \A i \in 1..(Len(r) + 1) : a[i] = IF i = Len(r) + 1 THEN m ELSE r[i]
  OBVIOUS
<1>2. /\ \A i \in 1..Len(r) : r[i].n \in Nat
      /\ \A i \in 1..Len(q) : q[i].n \in Nat
  <2>1. \A i \in 1..Len(r) : r[i] \in Messages
    OBVIOUS
  <2>2. \A i \in 1..Len(q) : q[i] \in Messages
    OBVIOUS
  <2> QED BY <2>1, <2>2 DEF Messages
<1>3. /\ \A i \in 1..Len(r) : r[i].n < m.n /\ r[i].n <= b
      /\ \A i \in 1..Len(q) : q[i].n < m.n
  BY <1>2 DEF AtMost
<1> HIDE DEF a
<1>4. Growing(a)
  <2> SUFFICES ASSUME NEW i \in 1..Len(a), NEW j \in 1..Len(a), i < j PROVE a[i].n < a[j].n
    BY DEF Growing
  <2>1. i \in 1..Len(r) /\ a[i] = r[i]
    BY <1>1
  <2>2. CASE j = Len(r) + 1
    BY <1>1, <1>3, <2>1, <2>2
  <2>3. CASE j \in 1..Len(r)
    <3>1. a[j] = r[j]
      BY <1>1, <2>3
    <3> QED BY <2>1, <2>3, <3>1 DEF Growing
  <2> QED BY <1>1, <2>2, <2>3
<1>5. Continues(q, a)
  BY <1>1, <1>3 DEF Continues
<1>6. AtMost(a, b)
  BY <1>1, <1>3 DEF AtMost
<1> QED BY <1>4, <1>5, <1>6 DEF a

\* Moving the head of one sequence to the end of the sequence before it keeps the order.
LEMMA ShiftGrows ==
    ASSUME NEW q \in Seq(Messages), NEW r \in Seq(Messages), r # <<>>, NEW b,
           Growing(q), Growing(r), Continues(q, r), AtMost(q, b), AtMost(r, b)
    PROVE  /\ Growing(Append(q, Head(r))) /\ Growing(Tail(r))
           /\ Continues(Append(q, Head(r)), Tail(r))
           /\ AtMost(Append(q, Head(r)), b) /\ AtMost(Tail(r), b)
<1> DEFINE a == Append(q, Head(r))  t == Tail(r)
<1>1. /\ Len(a) = Len(q) + 1 /\ Len(q) \in Nat
      /\ \A i \in 1..(Len(q) + 1) : a[i] = IF i = Len(q) + 1 THEN r[1] ELSE q[i]
  OBVIOUS
<1>2. /\ Len(t) = Len(r) - 1 /\ Len(r) \in Nat /\ 1 \in 1..Len(r)
      /\ \A i \in 1..Len(t) : t[i] = r[i + 1] /\ i + 1 \in 1..Len(r) /\ 1 < i + 1
  OBVIOUS
<1> HIDE DEF a, t
<1>3. Growing(a)
  <2> SUFFICES ASSUME NEW i \in 1..Len(a), NEW j \in 1..Len(a), i < j PROVE a[i].n < a[j].n
    BY DEF Growing
  <2>1. i \in 1..Len(q) /\ a[i] = q[i]
    BY <1>1
  <2>2. CASE j = Len(q) + 1
    <3>1. a[j] = r[1]
      BY <1>1, <2>2
    <3> QED BY <1>2, <2>1, <3>1 DEF Continues
  <2>3. CASE j \in 1..Len(q)
    <3>1. a[j] = q[j]
      BY <1>1, <2>3
    <3> QED BY <2>1, <2>3, <3>1 DEF Growing
  <2> QED BY <1>1, <2>2, <2>3
<1>4. Growing(t)
  <2> SUFFICES ASSUME NEW i \in 1..Len(t), NEW j \in 1..Len(t), i < j PROVE t[i].n < t[j].n
    BY DEF Growing
  <2>1. i + 1 < j + 1
    BY <1>2
  <2> QED BY <1>2, <2>1 DEF Growing
<1>5. Continues(a, t)
  <2> SUFFICES ASSUME NEW i \in 1..Len(a), NEW j \in 1..Len(t) PROVE a[i].n < t[j].n
    BY DEF Continues
  <2>1. t[j] = r[j + 1] /\ j + 1 \in 1..Len(r) /\ 1 < j + 1
    BY <1>2
  <2>2. CASE i = Len(q) + 1
    <3>1. a[i] = r[1]
      BY <1>1, <2>2
    <3> QED BY <1>2, <2>1, <3>1 DEF Growing
  <2>3. CASE i \in 1..Len(q)
    <3>1. a[i] = q[i]
      BY <1>1, <2>3
    <3> QED BY <2>1, <2>3, <3>1 DEF Continues
  <2> QED BY <1>1, <2>2, <2>3
<1>6. AtMost(a, b)
  BY <1>1, <1>2 DEF AtMost
<1>7. AtMost(t, b)
  BY <1>2 DEF AtMost
<1> QED BY <1>3, <1>4, <1>5, <1>6, <1>7 DEF a, t

\* The number of a message is a natural number.
LEMMA MessageNumber == ASSUME NEW m \in Messages PROVE m.n \in Nat
BY DEF Messages

\* What is at most b - 1 is at most b, and what is at most b is at most b + 1 - 1.
LEMMA AtMostWeaker ==
    ASSUME NEW q \in Seq(Messages), NEW b \in Nat, AtMost(q, b)
    PROVE  AtMost(q, b + 1) /\ AtMost(q, (b + 1) - 1)
<1>1. \A i \in 1..Len(q) : q[i] \in Messages
  OBVIOUS
<1>2. \A i \in 1..Len(q) : q[i].n \in Nat
  BY <1>1, MessageNumber, Zenon
<1> QED BY <1>2 DEF AtMost

----------------------------------------------------------------------------

\* Every step keeps the order of arrival in every session.
LEMMA OrderInductive == MuxInv /\ OrderInv /\ [Next]_vars => OrderInv'
<1> SUFFICES ASSUME MuxInv, OrderInv, [Next]_vars PROVE OrderInv'
  OBVIOUS
<1>0. /\ received \in Nat
      /\ \A e \in Entries : recvCh[e] \in Seq(Messages) /\ got[e] \in Seq(Messages)
      /\ recvCh \in [Entries -> Seq(Messages)] /\ got \in [Entries -> Seq(Messages)]
  BY BoundAssumption DEF MuxInv, TypeOK
\* Steps that neither receive, nor deliver, nor read.
<1>1. ASSUME UNCHANGED <<recvCh, got, received>>, reader' # "send" \/ UNCHANGED readerVars
      PROVE  OrderInv'
  BY <1>1 DEF OrderInv, readerVars
<1>2. ASSUME NEW e \in Entries, NEW p \in Peers, NEW s \in SIDs, DispatchNew(e, p, s)
      PROVE  OrderInv'
  <2> DEFINE m == [src |-> p, sid |-> s, n |-> received + 1]
  <2>1. /\ recvCh' = [recvCh EXCEPT ![e] = <<m>>] /\ m.n = received + 1
        /\ got' = got /\ received' = received + 1 /\ reader' = "offer"
    BY <1>2 DEF DispatchNew
  <2>2. m \in Messages
    BY <1>2, BoundAssumption DEF DispatchNew, Messages, MuxInv, TypeOK
  <2> HIDE DEF m
  <2>3. \A f \in Entries : AtMost(got[f], received + 1) /\ AtMost(recvCh[f], received + 1)
    BY <1>0, AtMostWeaker DEF OrderInv
  <2>4. Len(<<m>>) = 1 /\ <<m>>[1] = m
    OBVIOUS
  <2>5. \A i \in 1..Len(got[e]) : got[e][i].n < m.n
    <3>1. \A i \in 1..Len(got[e]) : got[e][i] \in Messages
      BY <1>0
    <3>2. AtMost(got[e], received)
      BY Zenon DEF OrderInv
    <3>3. \A i \in 1..Len(got[e]) : got[e][i].n <= received
      BY <3>2, Zenon DEF AtMost
    <3> TAKE i \in 1..Len(got[e])
    <3>4. got[e][i].n \in Nat
      BY <3>1, MessageNumber, Zenon
    <3> QED BY <1>0, <2>1, <3>3, <3>4, SMT
  <2>6. Growing(<<m>>) /\ Continues(got[e], <<m>>) /\ AtMost(<<m>>, received + 1)
    <3>1. Growing(<<m>>)
      BY <2>4 DEF Growing
    <3>2. Continues(got[e], <<m>>)
      BY <2>4, <2>5 DEF Continues
    <3>3. AtMost(<<m>>, received + 1)
      BY <1>0, <2>1, <2>4 DEF AtMost
    <3> QED BY <3>1, <3>2, <3>3
  <2>7. \A f \in Entries : recvCh'[f] = IF f = e THEN <<m>> ELSE recvCh[f]
    BY <1>0, <2>1
  <2> QED BY <2>1, <2>3, <2>6, <2>7 DEF OrderInv
<1>3. ASSUME NEW p \in Peers, NEW s \in SIDs, DispatchKnown(p, s) PROVE OrderInv'
  <2>1. /\ UNCHANGED <<recvCh, got>> /\ received' = received + 1
        /\ message'.n = received + 1
    BY <1>3 DEF DispatchKnown
  <2>2. \A f \in Entries :
            /\ AtMost(got[f], received + 1) /\ AtMost(recvCh[f], received + 1)
            /\ AtMost(got[f], (received + 1) - 1) /\ AtMost(recvCh[f], (received + 1) - 1)
    BY <1>0, AtMostWeaker DEF OrderInv
  <2> QED BY <2>1, <2>2 DEF OrderInv
<1>4. CASE SafeSend
  <2>1. /\ current \in Entries /\ message \in Messages /\ message.n = received
        /\ reader' = "decode" /\ UNCHANGED <<got, received>>
    BY <1>4 DEF SafeSend, MuxInv, MapInv, OrderInv
  <2>2. CASE recvCh' = recvCh
    BY <2>1, <2>2 DEF OrderInv
  <2>3. CASE recvCh' = [recvCh EXCEPT ![current] = Append(@, message)]
    <3>1. \A f \in Entries :
              recvCh'[f] = IF f = current THEN Append(recvCh[f], message) ELSE recvCh[f]
      BY <1>0, <2>1, <2>3
    <3>2. /\ Growing(recvCh[current]) /\ Continues(got[current], recvCh[current])
          /\ AtMost(got[current], received - 1) /\ AtMost(recvCh[current], received - 1)
      BY <1>4, <2>1 DEF SafeSend, OrderInv
    <3>3. /\ Growing(Append(recvCh[current], message))
          /\ Continues(got[current], Append(recvCh[current], message))
          /\ AtMost(Append(recvCh[current], message), received)
      BY <1>0, <2>1, <3>2, AppendGrows
    <3> QED BY <2>1, <3>1, <3>3 DEF OrderInv
  <2> QED BY <1>4, <2>2, <2>3 DEF SafeSend
<1>5. ASSUME NEW e \in Entries, Read(e) PROVE OrderInv'
  <2> DEFINE a == Append(got[e], Head(recvCh[e]))  t == Tail(recvCh[e])
  <2>1. /\ recvCh[e] # <<>> /\ UNCHANGED <<received, readerVars>>
        /\ \A f \in Entries : got'[f] = IF f = e THEN a ELSE got[f]
        /\ \A f \in Entries : recvCh'[f] = IF f = e THEN t ELSE recvCh[f]
    BY <1>0, <1>5 DEF Read
  <2>2. /\ Growing(a) /\ Growing(t) /\ Continues(a, t)
        /\ AtMost(a, received) /\ AtMost(t, received)
    BY <1>0, <2>1, ShiftGrows DEF OrderInv
  <2>3. reader = "send" => AtMost(a, received - 1) /\ AtMost(t, received - 1)
    BY <1>0, <2>1, ShiftGrows DEF OrderInv
  <2> HIDE DEF a, t
  <2> QED BY <2>1, <2>2, <2>3 DEF OrderInv, readerVars
<1>6. CASE Connect \/ StreamLost \/ CloseAllSessions \/ Offer \/ TakeIncoming
  BY <1>1, <1>6 DEF Connect, StreamLost, CloseAllSessions, Offer, TakeIncoming
<1>7. ASSUME NEW e \in Entries, ReadEOF(e) \/ Close(e) \/ \E p \in Peers : NewSession(e, p)
      PROVE  OrderInv'
  BY <1>1, <1>7 DEF ReadEOF, Close, NewSession
<1>8. CASE UNCHANGED vars
  BY <1>1, <1>8 DEF vars
<1> QED BY <1>2, <1>3, <1>4, <1>5, <1>6, <1>7, <1>8 DEF Next

\* Two ordered sequences, one continuing the other, make one ordered sequence.
LEMMA OrderImplies ==
    ASSUME MuxInv, OrderInv
    PROVE  InOrder
<1> SUFFICES ASSUME NEW e \in Entries,
                    NEW i \in 1..Len(got[e] \o recvCh[e]),
                    NEW j \in 1..Len(got[e] \o recvCh[e]), i < j
             PROVE  (got[e] \o recvCh[e])[i].n < (got[e] \o recvCh[e])[j].n
  BY DEF InOrder
<1> DEFINE q == got[e]  r == recvCh[e]
<1>1. q \in Seq(Messages) /\ r \in Seq(Messages)
  BY DEF MuxInv, TypeOK
<1>2. Growing(q) /\ Growing(r) /\ Continues(q, r)
  BY DEF OrderInv
<1> HIDE DEF q, r
<1>3. /\ Len(q) \in Nat /\ Len(r) \in Nat /\ Len(q \o r) = Len(q) + Len(r)
      /\ \A k \in 1..(Len(q) + Len(r)) :
             (q \o r)[k] = IF k <= Len(q) THEN q[k] ELSE r[k - Len(q)]
  BY <1>1
<1>4. i \in 1..(Len(q) + Len(r)) /\ j \in 1..(Len(q) + Len(r))
  BY <1>3 DEF q, r
<1>5. CASE j <= Len(q)
  <2>1. (q \o r)[i] = q[i] /\ (q \o r)[j] = q[j] /\ i \in 1..Len(q) /\ j \in 1..Len(q)
    BY <1>3, <1>4, <1>5
  <2> QED BY <1>2, <2>1 DEF Growing, q, r
<1>6. CASE i <= Len(q) /\ ~(j <= Len(q))
  <2>1. /\ (q \o r)[i] = q[i] /\ (q \o r)[j] = r[j - Len(q)]
        /\ i \in 1..Len(q) /\ j - Len(q) \in 1..Len(r)
    BY <1>3, <1>4, <1>6
  <2> QED BY <1>2, <2>1 DEF Continues, q, r
<1>7. CASE ~(i <= Len(q))
  <2>1. /\ (q \o r)[i] = r[i - Len(q)] /\ (q \o r)[j] = r[j - Len(q)]
        /\ i - Len(q) \in 1..Len(r) /\ j - Len(q) \in 1..Len(r) /\ i - Len(q) < j - Len(q)
    BY <1>3, <1>4, <1>7
  <2> QED BY <1>2, <2>1 DEF Growing, q, r
<1> QED BY <1>3, <1>4, <1>5, <1>6, <1>7

\* No channel holds anything at first.
LEMMA OrderInit == Init => OrderInv
<1> SUFFICES ASSUME Init PROVE OrderInv
  OBVIOUS
<1> QED BY DEF Init, OrderInv, Growing, Continues, AtMost

\* In either role, what a session returns and holds is in the order of arrival and has
\* no duplicate, although readLoop sends outside the lock and full channels drop data.
THEOREM MuxInOrder == Spec => []InOrder
<1>1. MuxInv /\ OrderInv => InOrder
  BY OrderImplies
<1> QED BY <1>1, MuxInvariant, OrderInit, OrderInductive, PTL DEF Spec

----------------------------------------------------------------------------
(* The refinement. *)

\* A step that creates no session leaves the numbers alone.
LEMMA NumberKept ==
    ASSUME UNCHANGED <<sid, peer>>
    PROVE  Number' = Number
  BY DEF Number, Created

\* Creating a session gives it its number and leaves the others alone.
LEMMA NumberSet ==
    ASSUME MuxInv, NEW e \in Entries, Unused(e), NEW s \in SIDs, NEW p \in Peers,
           AddSession(e, s, p)
    PROVE  Number[e] = None /\ Number' = [Number EXCEPT ![e] = s]
<1>1. Number[e] = None
  BY DEF Number, Created, Unused
<1>2. \A f \in Entries : Number'[f] = IF f = e THEN s ELSE Number[f]
  BY BoundAssumption DEF Number, Created, AddSession, MuxInv, TypeOK
<1> QED BY <1>1, <1>2 DEF Number

\* The channels that are closed belong to sessions.
LEMMA ClosedOwned ==
    ASSUME MuxInv, closedCh \subseteq closedCh',
           \A e \in closedCh' : e \in Entries /\ Created(e),
           UNCHANGED <<sid, peer, recvCh, got, ended>>
    PROVE  Channel!Shut
<1>1. ASSUME NEW e \in closedCh' PROVE Number[e] # None
  <2>1. e \in Entries /\ Created(e) /\ sid[e] \in 1..MaxSID
    BY DEF MuxInv, MapInv, SIDs
  <2>2. Number[e] = sid[e]
    BY <2>1 DEF Number
  <2> QED BY <2>1, <2>2, NilAssumption
<1> QED BY <1>1, NumberKept DEF Channel!Shut

\* Every step keeps the number of what readLoop carries: it has looked the session up by
\* that number, and a session never changes its own.
LEMMA CarriedInductive == MuxInv /\ CarriedNumber /\ [Next]_vars => CarriedNumber'
<1> SUFFICES ASSUME MuxInv, CarriedNumber, [Next]_vars PROVE CarriedNumber'
  OBVIOUS
<1>1. ASSUME UNCHANGED sid, reader' # "send" \/ UNCHANGED readerVars PROVE CarriedNumber'
  BY <1>1 DEF CarriedNumber, readerVars
<1>2. ASSUME NEW e \in Entries, NEW p \in Peers, NEW s \in SIDs, DispatchNew(e, p, s)
      PROVE  CarriedNumber'
  BY <1>2 DEF DispatchNew, CarriedNumber
<1>3. ASSUME NEW p \in Peers, NEW s \in SIDs, DispatchKnown(p, s) PROVE CarriedNumber'
  <2>1. sid[sessions[s]] = s
    BY <1>3 DEF DispatchKnown, MuxInv, MapInv
  <2> QED BY <1>3, <2>1 DEF DispatchKnown, CarriedNumber
<1>4. ASSUME NEW e \in Entries, NEW p \in Peers, NewSession(e, p) PROVE CarriedNumber'
  <2> SUFFICES ASSUME reader' = "send" PROVE message'.sid = sid'[current']
    BY DEF CarriedNumber
  <2>1. reader = "send" /\ UNCHANGED readerVars
    BY <1>4 DEF NewSession, readerVars
  <2>2. current \in Entries /\ current # e
    BY <1>4, <2>1 DEF NewSession, Unused, Created, MuxInv, MapInv
  <2>3. \A f \in Entries : f # e => sid'[f] = sid[f]
    <3>1. AddSession(e, nextSID + 1, p)
      BY <1>4, Zenon DEF NewSession
    <3> QED BY <3>1, AddShape, Zenon
  <2> QED BY <2>1, <2>2, <2>3 DEF CarriedNumber, readerVars
<1>5. CASE Connect \/ StreamLost \/ CloseAllSessions \/ Offer \/ TakeIncoming \/ SafeSend
  BY <1>1, <1>5 DEF Connect, StreamLost, CloseAllSessions, Offer, TakeIncoming, SafeSend
<1>6. ASSUME NEW e \in Entries, Read(e) \/ ReadEOF(e) \/ Close(e) PROVE CarriedNumber'
  BY <1>1, <1>6 DEF Read, ReadEOF, Close
<1>7. CASE UNCHANGED vars
  BY <1>1, <1>7 DEF vars
<1> QED BY <1>2, <1>3, <1>4, <1>5, <1>6, <1>7 DEF Next

\* Every step of the multiplexer is a step of the channels or none of theirs.
LEMMA ChannelStep ==
    ASSUME MuxInv, CarriedNumber, OrderInv, [Next]_vars
    PROVE  [Channel!Next]_(Channel!vars)
<1> USE DEF Channel!Next, Channel!vars
<1>1. ASSUME UNCHANGED <<sid, peer, recvCh, got, closedCh, ended>>
      PROVE  UNCHANGED Channel!vars
  BY <1>1, NumberKept
<1>2. ASSUME NEW e \in Entries, NEW p \in Peers, NEW s \in SIDs, DispatchNew(e, p, s)
      PROVE  Channel!Open(e)
  <2> DEFINE m == [src |-> p, sid |-> s, n |-> received + 1]
  <2>0. received < MaxMsg
    BY <1>2, Zenon DEF DispatchNew
  <2>1. m \in Messages /\ m.sid = s
    <3>1. m \in Messages
      BY <2>0, NewMessage, Zenon
    <3> QED BY <3>1
  <2>2. recvCh' = [recvCh EXCEPT ![e] = <<m>>] /\ UNCHANGED <<got, closedCh, ended>>
    BY <1>2, Zenon DEF DispatchNew
  <2> HIDE DEF m
  <2>3. Number[e] = None /\ Number' = [Number EXCEPT ![e] = s]
    BY <1>2, NumberSet DEF DispatchNew
  <2> QED BY <2>1, <2>2, <2>3 DEF Channel!Open
<1>3. ASSUME NEW e \in Entries, NEW p \in Peers, NewSession(e, p)
      PROVE  Channel!Open(e)
  <2>1. nextSID + 1 \in SIDs
    BY <1>3, NextIsNew DEF NewSession
  <2>2. Number[e] = None /\ Number' = [Number EXCEPT ![e] = nextSID + 1]
    BY <1>3, <2>1, NumberSet DEF NewSession
  <2> QED BY <1>3, <2>1, <2>2 DEF NewSession, Channel!Open
<1>4. CASE SafeSend
  <2>1. /\ current \in Entries /\ Created(current) /\ message \in Messages
        /\ message.sid = sid[current] /\ message.n = received
        /\ AtMost(got[current], received - 1) /\ AtMost(recvCh[current], received - 1)
    BY <1>4 DEF SafeSend, MuxInv, MapInv, CarriedNumber, OrderInv
  <2>2. CASE recvCh' = recvCh
    BY <1>1, <1>4, <2>2, Zenon DEF SafeSend
  <2>3. CASE /\ recvCh' = [recvCh EXCEPT ![current] = Append(@, message)]
             /\ current \notin closedCh /\ Len(recvCh[current]) < RecvCap
    <3>1. Number[current] = message.sid
      BY <2>1 DEF Number
    <3>2. /\ \A i \in 1..Len(got[current]) : got[current][i].n < message.n
          /\ \A i \in 1..Len(recvCh[current]) : recvCh[current][i].n < message.n
      <4>1. /\ \A i \in 1..Len(got[current]) : got[current][i] \in Messages
            /\ \A i \in 1..Len(recvCh[current]) : recvCh[current][i] \in Messages
        BY <2>1 DEF MuxInv, TypeOK
      <4>2. received \in Nat
        <5>1. received \in 0..MaxMsg
          BY Zenon DEF MuxInv, TypeOK
        <5> QED BY <5>1, BoundAssumption
      <4>3. /\ \A i \in 1..Len(got[current]) : got[current][i].n < received
            /\ \A i \in 1..Len(recvCh[current]) : recvCh[current][i].n < received
        BY <2>1, <4>1, <4>2, OlderThanLast, Zenon
      <4> QED BY <2>1, <4>3, Zenon
    <3>3. Channel!Deliver(current, message)
      BY <1>4, <2>3, <3>1, <3>2, NumberKept DEF SafeSend, Channel!Deliver
    <3> QED BY <2>1, <3>3
  <2> QED BY <1>4, <2>2, <2>3 DEF SafeSend
<1>5. ASSUME NEW e \in Entries, Read(e) PROVE Channel!Receive(e)
  BY <1>5, NumberKept DEF Read, Channel!Receive
<1>6. ASSUME NEW e \in Entries, ReadEOF(e) PROVE Channel!End(e)
  BY <1>6, NumberKept DEF ReadEOF, Channel!End
<1>7. ASSUME NEW s \in SIDs, RemoveSession(s),
             UNCHANGED <<sid, peer, dialled, recvCh, got, ended>>
      PROVE  Channel!Shut
  <2>1. closedCh' \subseteq Entries /\ \A e \in closedCh' : Created(e)
    BY <1>7, RemoveKeeps
  <2>2. closedCh \subseteq closedCh'
    BY <1>7 DEF RemoveSession
  <2> QED BY <1>7, <2>1, <2>2, ClosedOwned
<1>8. ASSUME NEW e \in Entries, Close(e) PROVE Channel!Shut
  <2>1. sid[e] \in SIDs
    BY <1>8 DEF Held, Close, MuxInv, MapInv
  <2> QED BY <1>7, <1>8, <2>1 DEF Close
<1>9. CASE Offer
  <2>1. sid[current] \in SIDs
    BY <1>9 DEF Offer, MuxInv, MapInv
  <2> QED BY <1>1, <1>7, <1>9, <2>1 DEF Offer
<1>10. CASE CloseAllSessions
  <2>1. \A e \in closedCh' : e \in Entries /\ Created(e)
    BY <1>10 DEF CloseAllSessions, MuxInv, TypeOK, MapInv
  <2>2. Channel!Shut
    BY <1>10, <2>1, ClosedOwned DEF CloseAllSessions
  <2> QED BY <2>2
<1>11. CASE Connect \/ StreamLost \/ TakeIncoming
  BY <1>1, <1>11 DEF Connect, StreamLost, TakeIncoming
<1>12. ASSUME NEW p \in Peers, NEW s \in SIDs, DispatchKnown(p, s)
       PROVE  UNCHANGED Channel!vars
  BY <1>1, <1>12 DEF DispatchKnown
<1>13. CASE UNCHANGED vars
  BY <1>1, <1>13 DEF vars
<1> QED BY <1>2, <1>3, <1>4, <1>5, <1>6, <1>8, <1>9, <1>10, <1>11, <1>12, <1>13 DEF Next

\* In either role and whatever the peers send, the multiplexer implements SessionChannel:
\* every session is a lossy FIFO channel for its number, although dispatchData sends after
\* the unlock (proxy.go:244), Close deletes by number (proxy.go:305) and NewSession may
\* take the number of an open session.
THEOREM MuxImplementsChannel == Spec => ImplementsChannel
<1>1. Init => Channel!Init
  BY DEF Init, Channel!Init, Number, Created
<1>2. Init => CarriedNumber
  BY MuxInit
<1>3. MuxInv /\ CarriedNumber /\ OrderInv /\ [Next]_vars => [Channel!Next]_(Channel!vars)
  BY ChannelStep
<1> QED BY <1>1, <1>2, <1>3, MuxInvariant, CarriedInductive, OrderInit, OrderInductive, PTL
       DEF Spec, ImplementsChannel, Channel!Spec

=============================================================================
