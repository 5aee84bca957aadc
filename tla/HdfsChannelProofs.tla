------------------------ MODULE HdfsChannelProofs -------------------------
(***************************************************************************)
(* A channel of the RPC client counts the calls that use it, so that it    *)
(* stays in the map until the last of them gives it back.                  *)
(***************************************************************************)
EXTENDS HdfsClientProofs, FiniteSetTheorems

\* The calls that have a channel to s.
Users(s) == {t \in Threads : pc[t] \in OnChannel /\ server[t] = s}

ChannelInv ==
    \A s \in Servers : /\ Users(s) # {} => s \in allChannels
                       /\ s \in allChannels => refs[s] = Cardinality(Users(s))

ChannelType == allChannels \subseteq Servers /\ refs \in [Servers -> Int]

CInv == IInv /\ ChannelType /\ ChannelInv

LEMMA SameUsers ==
    ASSUME SameChannels, NEW s
    PROVE  Users(s)' = Users(s)
BY Zenon DEF SameChannels, Users

LEMMA SameChannelsInv ==
    ASSUME CInv, SameChannels
    PROVE  ChannelType' /\ ChannelInv'
<1>0. ChannelType' BY Zenon DEF CInv, ChannelType, SameChannels
<1> SUFFICES ASSUME NEW s \in Servers
             PROVE  /\ Users(s)' # {} => s \in allChannels'
                    /\ s \in allChannels' => refs'[s] = Cardinality(Users(s)')
  BY <1>0, Zenon DEF ChannelInv
<1>1. Users(s)' = Users(s) BY SameUsers, Zenon
<1> QED BY <1>1, Zenon DEF CInv, ChannelInv, SameChannels

\* The users of a channel are finitely many.
LEMMA UsersFinite ==
    ASSUME NEW s
    PROVE  /\ IsFiniteSet(Users(s)) /\ Cardinality(Users(s)) \in Nat
           /\ Cardinality({}) = 0
<1>1. Users(s) \subseteq Threads BY Zenon DEF Users
<1>2. IsFiniteSet(Users(s)) BY <1>1, FS_Subset, HdfsClientAssumption, Zenon
<1> QED BY <1>2, FS_CardinalityType, FS_EmptySet, Zenon

LEMMA TakeChannelChannels ==
    ASSUME CInv, NEW t \in Threads, TakesChannel(t)
    PROVE  ChannelType' /\ ChannelInv'
<1> USE DEF CInv, IInv
<1>0. PICK s0 : s0 = server[t] BY Zenon
<1>1. s0 \in Servers BY <1>0, Zenon DEF TypeOK, ProxyType
<1>2. /\ allChannels' = allChannels \cup {s0}
      /\ refs' = [refs EXCEPT ![s0] = (IF s0 \in allChannels THEN refs[s0] ELSE 0) + 1]
  BY <1>0, Zenon DEF TakesChannel, getChannel
<1>3. t \notin Users(s0) BY <1>0, Zenon DEF TakesChannel, Users, OnChannel
<1>4. Users(s0)' = Users(s0) \cup {t}
  BY <1>0, Zenon DEF TakesChannel, Users, OnChannel, TypeOK, ProxyType
<1>5. \A s \in Servers \ {s0} : Users(s)' = Users(s)
  BY <1>0, Zenon DEF TakesChannel, Users, OnChannel, TypeOK, ProxyType
<1>6. Cardinality(Users(s0)') = Cardinality(Users(s0)) + 1
  BY <1>3, <1>4, FS_AddElement, UsersFinite, Zenon
<1>7. (IF s0 \in allChannels THEN refs[s0] ELSE 0) = Cardinality(Users(s0))
  <2>1. CASE s0 \in allChannels BY <1>1, <2>1, Zenon DEF ChannelInv
  <2>2. CASE s0 \notin allChannels
    <3>1. Users(s0) = {} BY <1>1, <2>2, Zenon DEF ChannelInv
    <3> QED BY <2>2, <3>1, UsersFinite, Zenon
  <2> QED BY <2>1, <2>2, Zenon
<1>8. refs'[s0] = Cardinality(Users(s0)')
  BY <1>1, <1>2, <1>6, <1>7, Zenon DEF ChannelType
<1>9. allChannels' \subseteq Servers BY <1>1, <1>2, Zenon DEF ChannelType
<1>10. refs' \in [Servers -> Int]
  <2>1. Cardinality(Users(s0)) + 1 \in Int BY UsersFinite
  <2> QED BY <1>1, <1>2, <1>7, <2>1, Zenon DEF ChannelType
<1>11. ChannelInv'
  <2> SUFFICES ASSUME NEW s \in Servers
               PROVE  /\ Users(s)' # {} => s \in allChannels'
                      /\ s \in allChannels' => refs'[s] = Cardinality(Users(s)')
    BY Zenon DEF ChannelInv
  <2>1. CASE s = s0
    <3>1. Users(s)' = Users(s0)' BY <2>1, Zenon DEF Users
    <3>2. s \in allChannels' /\ refs'[s] = refs'[s0] BY <1>2, <2>1, Zenon
    <3> QED BY <1>8, <3>1, <3>2, Zenon
  <2>2. CASE s # s0
    <3>1. Users(s)' = Users(s) BY <1>5, <2>2, Zenon
    <3>2. refs'[s] = refs[s] BY <1>2, <2>2, Zenon DEF ChannelType
    <3> QED BY <1>2, <2>2, <3>1, <3>2, Zenon DEF ChannelInv
  <2> QED BY <2>1, <2>2, Zenon
<1> QED BY <1>9, <1>10, <1>11, Zenon DEF ChannelType

LEMMA GiveBackChannels ==
    ASSUME CInv, NEW t \in Threads, GivesChannelBack(t)
    PROVE  ChannelType' /\ ChannelInv'
<1> USE DEF CInv, IInv
<1>0. PICK s0 : s0 = server[t] OBVIOUS
<1>1. s0 \in Servers BY <1>0 DEF TypeOK, ProxyType
<1>2. allChannels' = allChannels /\ refs' = [refs EXCEPT ![s0] = refs[s0] - 1]
  BY <1>0, Zenon DEF GivesChannelBack, releaseChannel
<1>3. t \in Users(s0) BY <1>0, Zenon DEF GivesChannelBack, Users, OnChannel
<1>4. Users(s0)' = Users(s0) \ {t}
  BY <1>0, Zenon DEF GivesChannelBack, Users, OnChannel, TypeOK, ProxyType
<1>5. \A s \in Servers \ {s0} : Users(s)' = Users(s)
  BY <1>0, Zenon DEF GivesChannelBack, Users, OnChannel, TypeOK, ProxyType
<1>6. Cardinality(Users(s0)') = Cardinality(Users(s0)) - 1
  BY <1>3, <1>4, FS_RemoveElement, UsersFinite, Zenon
<1>7. s0 \in allChannels /\ refs[s0] = Cardinality(Users(s0))
  BY <1>1, <1>3, Zenon DEF ChannelInv
<1>8. refs'[s0] = Cardinality(Users(s0)')
  BY <1>1, <1>2, <1>6, <1>7, Zenon DEF ChannelType
<1>9. refs' \in [Servers -> Int]
  <2>1. Cardinality(Users(s0)) - 1 \in Int BY UsersFinite
  <2> QED BY <1>1, <1>2, <1>7, <2>1, Zenon DEF ChannelType
<1>10. ChannelInv'
  <2> SUFFICES ASSUME NEW s \in Servers
               PROVE  /\ Users(s)' # {} => s \in allChannels'
                      /\ s \in allChannels' => refs'[s] = Cardinality(Users(s)')
    BY DEF ChannelInv
  <2>1. CASE s = s0
    <3>1. Users(s)' = Users(s0)' BY <2>1 DEF Users
    <3>2. s \in allChannels' /\ refs'[s] = refs'[s0] BY <1>2, <1>7, <2>1, Zenon
    <3> QED BY <1>8, <3>1, <3>2
  <2>2. CASE s # s0
    <3>1. Users(s)' = Users(s) BY <1>5, <2>2
    <3>2. refs'[s] = refs[s] BY <1>2, <2>2, Zenon DEF ChannelType
    <3> QED BY <1>2, <2>2, <3>1, <3>2, Zenon DEF ChannelInv
  <2> QED BY <2>1, <2>2
<1> QED BY <1>2, <1>9, <1>10, Zenon DEF ChannelType

\* Only channels that nobody uses leave the map.
LEMMA DropIdleChannels ==
    ASSUME CInv, DropsIdle
    PROVE  ChannelType' /\ ChannelInv'
<1>0. ChannelType' BY Zenon DEF CInv, ChannelType, DropsIdle
<1> SUFFICES ASSUME NEW s \in Servers
             PROVE  /\ Users(s)' # {} => s \in allChannels'
                    /\ s \in allChannels' => refs'[s] = Cardinality(Users(s)')
  BY <1>0 DEF ChannelInv
<1>1. Users(s)' = Users(s) BY Zenon DEF DropsIdle, Users
<1>2. s \in allChannels' => refs'[s] = Cardinality(Users(s)')
  BY <1>1, Zenon DEF CInv, ChannelInv, DropsIdle
<1>3. ASSUME Users(s)' # {} PROVE s \in allChannels'
  <2>1. s \in allChannels /\ refs[s] = Cardinality(Users(s))
    BY <1>1, <1>3, Zenon DEF CInv, ChannelInv
  <2>2. Cardinality(Users(s)) # 0
    BY <1>1, <1>3, UsersFinite, FS_EmptySet, Zenon
  <2> QED BY <2>1, <2>2, Zenon DEF DropsIdle
<1> QED BY <1>2, <1>3, Zenon

LEMMA ChannelInit == Init => ChannelType /\ ChannelInv
<1> SUFFICES ASSUME Init PROVE ChannelType /\ ChannelInv BY Zenon
<1>1. /\ allChannels = {} /\ refs = [s \in Servers |-> 0]
      /\ pc = [t \in Threads |-> "idle"]
  BY Zenon DEF Init, RpcInit, NNInit
<1>2. \A s : Users(s) = {} BY <1>1, Zenon DEF Users, OnChannel
<1> QED BY <1>1, <1>2 DEF ChannelType, ChannelInv

\* Every channel in the map counts exactly the calls that hold it, and a call holds only a
\* channel that is in the map: RpcClientImpl::getChannel adds a reference under the lock
\* that the cleaner holds too (RpcClient.cpp), and NamenodeImpl::invoke gives it back on
\* every path (NamenodeImpl.cpp).
THEOREM ChannelsAreCounted == Spec => []CInv
<1>1. Init => CInv BY InitInv, ChannelInit, Zenon DEF CInv
<1>2. CInv /\ [Next]_vars => CInv'
  <2> SUFFICES ASSUME CInv, [Next]_vars PROVE CInv' BY Zenon
  <2>1. IInv' /\ ChannelStep BY NextInv, Zenon DEF CInv
  <2>2. ChannelType' /\ ChannelInv'
    BY <2>1, SameChannelsInv, TakeChannelChannels, GiveBackChannels, DropIdleChannels, Zenon
       DEF ChannelStep
  <2> QED BY <2>1, <2>2, Zenon DEF CInv
<1> QED BY <1>1, <1>2, PTL DEF Spec

\* The proxy is open and the channel is in the map as long as a call uses them: neither
\* hdfsDisconnect and hdfsCloseFile nor the cleaner and the destructor of RpcClientImpl
\* take them from under a call, whatever the other threads do.
THEOREM NothingGoes == Spec => []NothingGoesUnderCall
<1>1. CInv => NothingGoesUnderCall
  <2> SUFFICES ASSUME CInv PROVE NothingGoesUnderCall BY Zenon
  <2> USE DEF CInv, IInv
  <2>1. ASSUME NEW t \in Threads
        PROVE  /\ pc[t] # "abort" /\ exc[t] # "HdfsFileSystemClosed"
               /\ pc[t] \in {"active", "channel", "invoke", "release", "decide", "failover"}
                     => namenodes > 0
    <3>1. pc[t] # "abort" BY Zenon DEF TypeOK, ProxyType, InProxy
    <3>2. exc[t] # "HdfsFileSystemClosed"
      BY Zenon DEF TypeOK, ProxyType, Errors, ReflexNames, NoException
    <3>3. pc[t] \in InProxy => namenodes > 0
      BY ProxyOpen DEF InFn
    <3> QED BY <3>1, <3>2, <3>3, Zenon DEF InProxy
  <2>2. implRefs = {} => namenodes = 0 BY Zenon DEF OwnerInv
  <2>3. ASSUME NEW s \in Servers
        PROVE  /\ Users(s) # {} => s \in allChannels
               /\ s \in allChannels => refs[s] = Cardinality(Users(s))
    BY Zenon DEF ChannelInv
  <2> QED BY <2>1, <2>2, <2>3, Zenon DEF NothingGoesUnderCall, Users, OnChannel
<1> QED BY <1>1, ChannelsAreCounted, PTL
=============================================================================
