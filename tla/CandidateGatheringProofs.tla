---------------------- MODULE CandidateGatheringProofs ----------------------
(***************************************************************************)
(* Proofs about CandidateGathering for any number of sessions and any      *)
(* interfaces.                                                             *)
(***************************************************************************)
EXTENDS CandidateGathering, TLAPS

\* A query posts one result: stunCh is empty until it has ended, and a session that has
\* not started has no query.
PostOnce ==
    \A s \in Sessions : /\ query[s] # "ended" => stunCh[s] = 0
                        /\ send[s] = "idle" => query[s] = "none"

Addresses == CollectEmbedded \cup {Mapped(s) : s \in Sessions}

\* The variables that TypeOK leaves out.
ResultTypes ==
    /\ message \in [Sessions -> SUBSET Addresses]
    /\ stunned \in [Sessions -> SUBSET Addresses]
    /\ xorAddr \in [Sessions -> SUBSET Addresses]
    /\ ch \in [Sessions -> (SUBSET Addresses) \cup {None}]

\* Wherever the result of an exchange is kept, it is that of the session's own request.
OwnResult ==
    \A s \in Sessions : /\ xorAddr[s] \subseteq {Mapped(s)}
                        /\ stunned[s] \subseteq {Mapped(s)}
                        /\ ch[s] # None => ch[s] \subseteq {Mapped(s)}
                        /\ message[s] \subseteq CollectEmbedded \cup {Mapped(s)}

GatherInv == TypeOK /\ PostOnce /\ ResultTypes /\ OwnResult

----------------------------------------------------------------------------

LEMMA GatherInit == Init => GatherInv
<1> SUFFICES ASSUME Init PROVE GatherInv
    OBVIOUS
<1>1. directLn \in BOOLEAN /\ ctxDone \in [Sessions -> BOOLEAN]
    BY Zenon DEF Init
<1>2. TypeOK
  <2>1. /\ send \in [Sessions -> {"idle", "gather", "write", "done"}]
        /\ query \in [Sessions -> {"none", "resolve", "select", "close", "post", "ended"}]
        /\ stunCh \in [Sessions -> 0..1]
        /\ exchange \in [Sessions -> {"none", "waiting", "answered", "failed", "ended"}]
        /\ client \in [Sessions -> {"none", "open", "closing", "closed"}]
        /\ requested \subseteq Sessions /\ socket \subseteq Sessions
      BY DEF Init
  <2> QED
      BY <1>1, <2>1, Zenon DEF TypeOK
<1>3. PostOnce
    BY DEF Init, PostOnce
<1>4. ResultTypes
    BY DEF Init, ResultTypes
<1>5. OwnResult
    BY DEF Init, OwnResult
<1> QED
    BY <1>2, <1>3, <1>4, <1>5 DEF GatherInv

\* A step that leaves the results alone.
LEMMA ResultsKept ==
    ASSUME ResultTypes, OwnResult, UNCHANGED <<message, stunned, xorAddr, ch>>
    PROVE  ResultTypes' /\ OwnResult'
    BY Zenon DEF ResultTypes, OwnResult, Addresses, CollectEmbedded, Mapped

LEMMA GatherInductive == GatherInv /\ [Next]_vars => GatherInv'
<1> SUFFICES ASSUME GatherInv, [Next]_vars PROVE GatherInv'
    OBVIOUS
<1> USE DEF GatherInv, sendVars, queryVars, doVars, netVars
<1>1. ASSUME NEW s \in Sessions, StartSend(s) PROVE GatherInv'
  <2>1. TypeOK' /\ PostOnce'
      BY <1>1 DEF StartSend, TypeOK, PostOnce
  <2> QED
      BY <1>1, <2>1, ResultsKept DEF StartSend
<1>2. ASSUME NEW s \in Sessions, TakeResult(s) PROVE GatherInv'
  <2>1. TypeOK' /\ PostOnce'
      BY <1>2 DEF TakeResult, TypeOK, PostOnce
  <2>2. PICK all : /\ message' = [message EXCEPT ![s] = all]
                   /\ all \subseteq CollectEmbedded \cup stunned[s]
      BY <1>2, Zenon DEF TakeResult
  <2>3. all \subseteq CollectEmbedded \cup {Mapped(s)}
      BY <2>2 DEF OwnResult
  <2>4. ResultTypes'
      BY <1>2, <2>2, <2>3 DEF TakeResult, ResultTypes, Addresses, CollectEmbedded
  <2>5. OwnResult'
      BY <1>2, <2>2, <2>3 DEF TakeResult, ResultTypes, OwnResult, CollectEmbedded
  <2> QED
      BY <2>1, <2>4, <2>5
<1>3. ASSUME NEW s \in Sessions, WriteControl(s) PROVE GatherInv'
  <2>1. TypeOK' /\ PostOnce'
      BY <1>3 DEF WriteControl, TypeOK, PostOnce
  <2>2. UNCHANGED message \/ message' = [message EXCEPT ![s] = {}]
      BY <1>3 DEF WriteControl
  <2>3. ResultTypes' /\ OwnResult'
      BY <1>3, <2>2 DEF WriteControl, ResultTypes, OwnResult, Addresses, CollectEmbedded
  <2> QED
      BY <2>1, <2>3
<1>4. ASSUME NEW s \in Sessions, ResolveFails(s) PROVE GatherInv'
  <2>1. TypeOK' /\ PostOnce'
      BY <1>4 DEF ResolveFails, TypeOK, PostOnce
  <2> QED
      BY <1>4, <2>1, ResultsKept DEF ResolveFails
<1>5. ASSUME NEW s \in Sessions, StartDo(s) PROVE GatherInv'
  <2>1. TypeOK' /\ PostOnce'
      BY <1>5 DEF StartDo, TypeOK, PostOnce
  <2> QED
      BY <1>5, <2>1, ResultsKept DEF StartDo
<1>6. ASSUME NEW s \in Sessions, CtxDone(s) PROVE GatherInv'
  <2>1. TypeOK' /\ PostOnce'
      BY <1>6 DEF CtxDone, TypeOK, PostOnce
  <2> QED
      BY <1>6, <2>1, ResultsKept DEF CtxDone
<1>7. ASSUME NEW s \in Sessions, SelectDone(s) PROVE GatherInv'
  <2>1. TypeOK' /\ PostOnce'
      BY <1>7 DEF SelectDone, TypeOK, PostOnce
  <2> QED
      BY <1>7, <2>1, ResultsKept DEF SelectDone
<1>8. ASSUME NEW s \in Sessions, SelectResult(s) PROVE GatherInv'
  <2>1. TypeOK' /\ PostOnce'
      BY <1>8 DEF SelectResult, TypeOK, PostOnce
  <2>2. ch[s] \subseteq {Mapped(s)} /\ ch[s] \in SUBSET Addresses
      BY <1>8 DEF SelectResult, OwnResult, Addresses
  <2> HIDE DEF GatherInv
  <2>3. ResultTypes /\ OwnResult
      BY DEF GatherInv
  <2>4. ResultTypes'
      BY <1>8, <2>2, <2>3 DEF SelectResult, ResultTypes, Addresses, CollectEmbedded
  <2>5. OwnResult'
      BY <1>8, <2>2, <2>3 DEF SelectResult, ResultTypes, OwnResult, CollectEmbedded
  <2> QED
      BY <2>1, <2>4, <2>5 DEF GatherInv
<1>9. ASSUME NEW s \in Sessions, CloseClient(s) PROVE GatherInv'
  <2>1. TypeOK' /\ PostOnce'
      BY <1>9 DEF CloseClient, TypeOK, PostOnce
  <2> QED
      BY <1>9, <2>1, ResultsKept DEF CloseClient
<1>10. ASSUME NEW s \in Sessions, CloseReturns(s) PROVE GatherInv'
  <2>1. TypeOK' /\ PostOnce'
      BY <1>10 DEF CloseReturns, TypeOK, PostOnce
  <2> QED
      BY <1>10, <2>1, ResultsKept DEF CloseReturns
<1>11. ASSUME NEW s \in Sessions, Post(s) PROVE GatherInv'
  <2>1. TypeOK' /\ PostOnce'
      BY <1>11 DEF Post, TypeOK, PostOnce
  <2> QED
      BY <1>11, <2>1, ResultsKept DEF Post
<1>12. ASSUME NEW s \in Sessions, DoReturns(s) PROVE GatherInv'
  <2>1. TypeOK' /\ PostOnce'
      BY <1>12 DEF DoReturns, TypeOK, PostOnce
  <2>2. ResultTypes' /\ OwnResult'
      BY <1>12 DEF DoReturns, ResultTypes, OwnResult, Addresses, CollectEmbedded
  <2> QED
      BY <2>1, <2>2
<1>13. ASSUME NEW s \in Sessions, Answer(s) PROVE GatherInv'
  <2>1. TypeOK' /\ PostOnce'
      BY <1>13 DEF Answer, TypeOK, PostOnce
  <2> QED
      BY <1>13, <2>1, ResultsKept DEF Answer
<1>14. ASSUME NEW s \in Sessions, ExchangeFails(s) PROVE GatherInv'
  <2>1. TypeOK' /\ PostOnce'
      BY <1>14 DEF ExchangeFails, TypeOK, PostOnce
  <2> QED
      BY <1>14, <2>1, ResultsKept DEF ExchangeFails
<1>15. ASSUME NEW s \in Sessions, ReadEnds(s) PROVE GatherInv'
  <2>1. TypeOK' /\ PostOnce'
      BY <1>15 DEF ReadEnds, TypeOK, PostOnce
  <2> QED
      BY <1>15, <2>1, ResultsKept DEF ReadEnds
<1>16. ASSUME NEW s \in Sessions, NEW t \in Sessions, ReadAnswer(t, s) PROVE GatherInv'
  <2>1. TypeOK' /\ PostOnce'
      BY <1>16 DEF ReadAnswer, TypeOK, PostOnce
  <2>2. xorAddr' = xorAddr \/ xorAddr' = [xorAddr EXCEPT ![t] = {Mapped(t)}]
      BY <1>16 DEF ReadAnswer
  <2>3. ResultTypes' /\ OwnResult'
      BY <1>16, <2>2 DEF ReadAnswer, ResultTypes, OwnResult, Addresses, CollectEmbedded
  <2> QED
      BY <2>1, <2>3
<1>17. CASE UNCHANGED vars
  <2>1. TypeOK' /\ PostOnce'
      BY <1>17 DEF vars, TypeOK, PostOnce
  <2> QED
      BY <1>17, <2>1, ResultsKept DEF vars
<1> QED
    BY <1>1, <1>2, <1>3, <1>4, <1>5, <1>6, <1>7, <1>8, <1>9, <1>10, <1>11, <1>12, <1>13,
       <1>14, <1>15, <1>16, <1>17 DEF Next, QueryStep

LEMMA Gathering == Spec => []GatherInv
    BY GatherInit, GatherInductive, PTL DEF Spec

\* The variables of sendCandidates and of its queries keep their types, and stunCh
\* (manager.go:592) never holds more than the one result there is room for.
THEOREM GatherTypeCorrect == Spec => []TypeOK
<1>1. GatherInv => TypeOK
    BY DEF GatherInv
<1> QED
    BY <1>1, Gathering, PTL

\* OffersOwnAddresses for any number of sessions that share the socket: whichever read
\* loop takes an answer (transportConn.Read, stun.go:37), sendCandidates offers the
\* address of its own request and none of the overlay.
THEOREM GatherOffersOwn == Spec => []OffersOwnAddresses
<1>1. ASSUME GatherInv PROVE OffersOwnAddresses
  <2>1. \A s, t \in Sessions : Mapped(t) \in {Mapped(s)} => Mapped(t) = Mapped(s)
      OBVIOUS
  <2>2. \A t \in Sessions : Mapped(t) \notin CollectEmbedded
      BY DEF Mapped, CollectEmbedded, Embedded
  <2>3. \A a \in Overlay : Embedded(a) \notin CollectEmbedded
      BY DEF CollectEmbedded, Embedded
  <2>4. \A a \in Overlay, s \in Sessions : Embedded(a) # Mapped(s)
      BY DEF Mapped, Embedded
  <2> HIDE DEF Mapped, Embedded
  <2> QED
      BY <1>1, <2>2, <2>3, <2>4 DEF GatherInv, OwnResult, OffersOwnAddresses
<1> QED
    BY <1>1, Gathering, PTL

=============================================================================
