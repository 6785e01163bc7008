------------------------- MODULE SessionManagerProofs -------------------------
(***************************************************************************)
(* Theorems about SessionManager for every set of sources, every outcome of *)
(* source discovery and any number of transports: what is captured is what  *)
(* is selected, on the transport of the session.                            *)
(*                                                                         *)
(* A command is a list of steps, so most of the argument is about the order *)
(* of steps in that list: a transport is made only after the state that     *)
(* held the old one was replaced, and so on.                                *)
(***************************************************************************)
EXTENDS SessionManager, TLAPS

USE CommandsAssumption, NoSourceAssumption, HasAudioAssumption, TruncatedAssumption,
    ObservationsAssumption, PeerStatesAssumption, MaxTransportsAssumption,
    MaxCandidatesAssumption, MaxArrivedAssumption

-----------------------------------------------------------------------------
(***************************************************************************)
(* Lists of steps.                                                          *)
(***************************************************************************)
Renewals == {"host", "viewer"}
Links    == {"transport", "connect"}
Uses     == {"start", "stop", "disconnect", "demo", "poll", "offer"}
Beginnings == {"host", "demo"}

\* Between the use or the end of one session, or a demonstration, and the links
\* of the next session its state is replaced.
LinksRenewed(list) ==
  \A i, j \in DOMAIN list :
    j < i /\ list[i] \in Links /\ list[j] \in Uses =>
      \E k \in DOMAIN list : j < k /\ k < i /\ list[k] \in Renewals

\* No command both starts a capture and replaces the session.
StartsAlone(list) ==
  \A i, j \in DOMAIN list : list[i] = "start" => list[j] \notin Renewals \cup {"reset"}

\* After a disconnection the state is replaced.
EndsRenewed(list) ==
  \A i \in DOMAIN list : list[i] = "disconnect" =>
    \E k \in DOMAIN list : i < k /\ list[k] \in Renewals \cup {"reset"}

\* A host begins with a default after the last look at the catalog.
DefaultsLast(list) ==
  \A i, j \in DOMAIN list :
    list[i] \in Beginnings /\ list[j] = "sync" =>
      \E k \in DOMAIN list : j < k /\ k < i /\ list[k] = "default"

\* No command both selects or resets and begins a session.
SelectsAlone(list) ==
  \A i, j \in DOMAIN list :
    list[i] \in {"select", "reset"} => list[j] \notin Beginnings \cup Links \cup {"default"}

InOrder(list) ==
  /\ list \in Seq(Steps)
  /\ LinksRenewed(list) /\ StartsAlone(list) /\ EndsRenewed(list)
  /\ DefaultsLast(list) /\ SelectsAlone(list)

\* What is left of a list in order is in order.
LEMMA RestInOrder ==
  ASSUME NEW list, list # <<>>, InOrder(list)
  PROVE  InOrder(Tail(list))
<1> DEFINE rest == Tail(list)
<1>1. /\ rest \in Seq(Steps) /\ list \in Seq(Steps)
      /\ DOMAIN list = 1..Len(list) /\ DOMAIN rest = 1..(Len(list) - 1)
      /\ Len(list) \in Nat
  BY DEF InOrder
<1>2. \A i \in DOMAIN rest : i + 1 \in DOMAIN list /\ rest[i] = list[i + 1]
  BY <1>1
<1>3. \A i \in DOMAIN list : i > 1 => i - 1 \in DOMAIN rest /\ rest[i - 1] = list[i]
  BY <1>1
<1> HIDE DEF rest
<1>4. LinksRenewed(rest)
  <2> SUFFICES ASSUME NEW i \in DOMAIN rest, NEW j \in DOMAIN rest,
                      j < i, rest[i] \in Links, rest[j] \in Uses
               PROVE  \E k \in DOMAIN rest : j < k /\ k < i /\ rest[k] \in Renewals
    BY DEF LinksRenewed
  <2>1. PICK k \in DOMAIN list : j + 1 < k /\ k < i + 1 /\ list[k] \in Renewals
    BY <1>1, <1>2 DEF InOrder, LinksRenewed
  <2>2. k - 1 \in DOMAIN rest /\ rest[k - 1] = list[k]
    BY <1>1, <1>3, <2>1
  <2>3. j < k - 1 /\ k - 1 < i
    BY <1>1, <2>1
  <2>4. QED
    BY <2>1, <2>2, <2>3
<1>5. StartsAlone(rest)
  BY <1>2 DEF InOrder, StartsAlone
<1>6. EndsRenewed(rest)
  <2> SUFFICES ASSUME NEW i \in DOMAIN rest, rest[i] = "disconnect"
               PROVE  \E k \in DOMAIN rest : i < k /\ rest[k] \in Renewals \cup {"reset"}
    BY DEF EndsRenewed
  <2>1. PICK k \in DOMAIN list : i + 1 < k /\ list[k] \in Renewals \cup {"reset"}
    BY <1>2 DEF InOrder, EndsRenewed
  <2>2. k - 1 \in DOMAIN rest /\ rest[k - 1] = list[k]
    BY <1>1, <1>3, <2>1
  <2>3. i < k - 1
    BY <1>1, <2>1
  <2>4. QED
    BY <2>1, <2>2, <2>3
<1>7. DefaultsLast(rest)
  <2> SUFFICES ASSUME NEW i \in DOMAIN rest, NEW j \in DOMAIN rest,
                      rest[i] \in Beginnings, rest[j] = "sync"
               PROVE  \E k \in DOMAIN rest : j < k /\ k < i /\ rest[k] = "default"
    BY DEF DefaultsLast
  <2>1. PICK k \in DOMAIN list : j + 1 < k /\ k < i + 1 /\ list[k] = "default"
    BY <1>2 DEF InOrder, DefaultsLast
  <2>2. k - 1 \in DOMAIN rest /\ rest[k - 1] = list[k]
    BY <1>1, <1>3, <2>1
  <2>3. j < k - 1 /\ k - 1 < i
    BY <1>1, <2>1
  <2>4. QED
    BY <2>1, <2>2, <2>3
<1>8. SelectsAlone(rest)
  BY <1>2 DEF InOrder, SelectsAlone
<1>9. QED
  BY <1>1, <1>4, <1>5, <1>6, <1>7, <1>8 DEF rest, InOrder

Additions == {"write", "capture", "drain"}

\* A list in order stays so with a step added that saves, polls or sends.
LEMMA AdditionInOrder ==
  ASSUME NEW list, InOrder(list), NEW step \in Additions
  PROVE  InOrder(<<step>> \o list)
<1> DEFINE long == <<step>> \o list
<1>0. step \in Steps
  BY DEF Additions, Steps
<1>1. /\ long \in Seq(Steps)
      /\ DOMAIN list = 1..Len(list) /\ DOMAIN long = 1..(Len(list) + 1)
      /\ Len(list) \in Nat /\ long[1] = step
  BY <1>0 DEF InOrder
<1>2. \A i \in DOMAIN long : i # 1 => i - 1 \in DOMAIN list /\ long[i] = list[i - 1]
  BY <1>1
<1>3. \A i \in DOMAIN list : i + 1 \in DOMAIN long /\ long[i + 1] = list[i]
  BY <1>1
<1> HIDE DEF long
<1>4. LinksRenewed(long)
  <2> SUFFICES ASSUME NEW i \in DOMAIN long, NEW j \in DOMAIN long,
                      j < i, long[i] \in Links, long[j] \in Uses
               PROVE  \E k \in DOMAIN long : j < k /\ k < i /\ long[k] \in Renewals
    BY DEF LinksRenewed
  <2>1. i # 1 /\ j # 1
    BY <1>1 DEF Links, Uses, Additions
  <2>2. PICK k \in DOMAIN list : j - 1 < k /\ k < i - 1 /\ list[k] \in Renewals
    BY <1>1, <1>2, <2>1 DEF InOrder, LinksRenewed
  <2>3. k + 1 \in DOMAIN long /\ long[k + 1] = list[k] /\ j < k + 1 /\ k + 1 < i
    BY <1>1, <1>3, <2>2
  <2>4. QED
    BY <2>2, <2>3
<1>5. StartsAlone(long)
  BY <1>1, <1>2 DEF InOrder, StartsAlone, Renewals, Additions
<1>6. EndsRenewed(long)
  <2> SUFFICES ASSUME NEW i \in DOMAIN long, long[i] = "disconnect"
               PROVE  \E k \in DOMAIN long : i < k /\ long[k] \in Renewals \cup {"reset"}
    BY DEF EndsRenewed
  <2>1. i # 1
    BY <1>1 DEF Additions
  <2>2. PICK k \in DOMAIN list : i - 1 < k /\ list[k] \in Renewals \cup {"reset"}
    BY <1>2, <2>1 DEF InOrder, EndsRenewed
  <2>3. k + 1 \in DOMAIN long /\ long[k + 1] = list[k] /\ i < k + 1
    BY <1>1, <1>3, <2>2
  <2>4. QED
    BY <2>2, <2>3
<1>7. DefaultsLast(long)
  <2> SUFFICES ASSUME NEW i \in DOMAIN long, NEW j \in DOMAIN long,
                      long[i] \in Beginnings, long[j] = "sync"
               PROVE  \E k \in DOMAIN long : j < k /\ k < i /\ long[k] = "default"
    BY DEF DefaultsLast
  <2>1. i # 1 /\ j # 1
    BY <1>1 DEF Beginnings, Additions
  <2>2. PICK k \in DOMAIN list : j - 1 < k /\ k < i - 1 /\ list[k] = "default"
    BY <1>2, <2>1 DEF InOrder, DefaultsLast
  <2>3. k + 1 \in DOMAIN long /\ long[k + 1] = list[k] /\ j < k + 1 /\ k + 1 < i
    BY <1>1, <1>3, <2>2
  <2>4. QED
    BY <2>2, <2>3
<1>8. SelectsAlone(long)
  BY <1>1, <1>2 DEF InOrder, SelectsAlone, Beginnings, Links, Additions
<1>9. QED
  BY <1>1, <1>4, <1>5, <1>6, <1>7, <1>8 DEF long, InOrder

\* Before a step of one kind there is still a step of another kind to do.
Awaits(list, Kind, Before) ==
  \A i \in DOMAIN list : list[i] \in Kind =>
    \E k \in DOMAIN list : k < i /\ list[k] \in Before

LEMMA AwaitsRest ==
  ASSUME NEW list \in Seq(Steps), list # <<>>, NEW Kind, NEW Before,
         Awaits(list, Kind, Before), Head(list) \notin Before
  PROVE  Awaits(Tail(list), Kind, Before)
<1> DEFINE rest == Tail(list)
<1>1. /\ DOMAIN list = 1..Len(list) /\ DOMAIN rest = 1..(Len(list) - 1)
      /\ Len(list) \in Nat /\ Head(list) = list[1]
  OBVIOUS
<1>2. \A i \in DOMAIN rest : i + 1 \in DOMAIN list /\ rest[i] = list[i + 1]
  BY <1>1
<1>3. \A i \in DOMAIN list : i > 1 => i - 1 \in DOMAIN rest /\ rest[i - 1] = list[i]
  BY <1>1
<1> HIDE DEF rest
<1> SUFFICES ASSUME NEW i \in DOMAIN rest, rest[i] \in Kind
               PROVE  \E k \in DOMAIN rest : k < i /\ rest[k] \in Before
  BY DEF Awaits, rest
<1>5. PICK k \in DOMAIN list : k < i + 1 /\ list[k] \in Before
  BY <1>2 DEF Awaits
<1>6. k # 1
  BY <1>1, <1>5
<1>7. k - 1 \in DOMAIN rest /\ rest[k - 1] = list[k] /\ k - 1 < i
  BY <1>1, <1>3, <1>5, <1>6
<1>8. QED
  BY <1>5, <1>7

LEMMA AwaitsAddition ==
  ASSUME NEW list \in Seq(Steps), NEW Kind, NEW Before, NEW step \in Steps,
         Awaits(list, Kind, Before), step \notin Kind
  PROVE  Awaits(<<step>> \o list, Kind, Before)
<1> DEFINE long == <<step>> \o list
<1>1. /\ DOMAIN list = 1..Len(list) /\ DOMAIN long = 1..(Len(list) + 1)
      /\ Len(list) \in Nat /\ long[1] = step
  OBVIOUS
<1>2. \A i \in DOMAIN long : i # 1 => i - 1 \in DOMAIN list /\ long[i] = list[i - 1]
  BY <1>1
<1>3. \A i \in DOMAIN list : i + 1 \in DOMAIN long /\ long[i + 1] = list[i]
  BY <1>1
<1> HIDE DEF long
<1> SUFFICES ASSUME NEW i \in DOMAIN long, long[i] \in Kind
               PROVE  \E k \in DOMAIN long : k < i /\ long[k] \in Before
  BY DEF Awaits, long
<1>5. i # 1
  BY <1>1
<1>6. PICK k \in DOMAIN list : k < i - 1 /\ list[k] \in Before
  BY <1>2, <1>5 DEF Awaits
<1>7. k + 1 \in DOMAIN long /\ long[k + 1] = list[k] /\ k + 1 < i
  BY <1>1, <1>3, <1>6
<1>8. QED
  BY <1>6, <1>7

\* What the head of a list in order says of its rest.
LEMMA HeadsInOrder ==
  ASSUME NEW list, list # <<>>, InOrder(list)
  PROVE  /\ Head(list) \in Uses => Awaits(Tail(list), Links, Renewals)
         /\ Head(list) = "sync" => Awaits(Tail(list), Beginnings, {"default"})
         /\ Head(list) \in {"select", "reset"} =>
              /\ Awaits(Tail(list), Beginnings, {"default"})
              /\ Awaits(Tail(list), {"default"}, {"sync"})
              /\ Awaits(Tail(list), Links, Renewals)
         /\ Head(list) = "disconnect" =>
              \E k \in DOMAIN Tail(list) : Tail(list)[k] \in Renewals \cup {"reset"}
         /\ Head(list) = "start" =>
              \A k \in DOMAIN list : list[k] \notin Renewals \cup {"reset"}
<1> DEFINE rest == Tail(list)
<1>1. /\ list \in Seq(Steps)
      /\ DOMAIN list = 1..Len(list) /\ DOMAIN rest = 1..(Len(list) - 1)
      /\ Len(list) \in Nat /\ 1 \in DOMAIN list /\ Head(list) = list[1]
  BY DEF InOrder
<1>2. \A i \in DOMAIN rest : i + 1 \in DOMAIN list /\ rest[i] = list[i + 1]
  BY <1>1
<1>3. \A i \in DOMAIN list : i > 1 => i - 1 \in DOMAIN rest /\ rest[i - 1] = list[i]
  BY <1>1
<1> HIDE DEF rest
<1>5. ASSUME Head(list) \in Uses
      PROVE  Awaits(rest, Links, Renewals)
  <2> SUFFICES ASSUME NEW i \in DOMAIN rest, rest[i] \in Links
                 PROVE  \E k \in DOMAIN rest : k < i /\ rest[k] \in Renewals
    BY DEF Awaits
  <2>2. PICK k \in DOMAIN list : 1 < k /\ k < i + 1 /\ list[k] \in Renewals
    BY <1>1, <1>2, <1>5 DEF InOrder, LinksRenewed
  <2>3. k - 1 \in DOMAIN rest /\ rest[k - 1] = list[k] /\ k - 1 < i
    BY <1>1, <1>3, <2>2
  <2>4. QED
    BY <2>2, <2>3
<1>6. ASSUME Head(list) = "sync"
      PROVE  Awaits(rest, Beginnings, {"default"})
  <2> SUFFICES ASSUME NEW i \in DOMAIN rest, rest[i] \in Beginnings
                 PROVE  \E k \in DOMAIN rest : k < i /\ rest[k] = "default"
    BY DEF Awaits
  <2>2. PICK k \in DOMAIN list : 1 < k /\ k < i + 1 /\ list[k] = "default"
    BY <1>1, <1>2, <1>6 DEF InOrder, DefaultsLast
  <2>3. k - 1 \in DOMAIN rest /\ rest[k - 1] = list[k] /\ k - 1 < i
    BY <1>1, <1>3, <2>2
  <2>4. QED
    BY <2>2, <2>3
<1>7. ASSUME Head(list) \in {"select", "reset"}
      PROVE  /\ Awaits(rest, Beginnings, {"default"}) /\ Awaits(rest, {"default"}, {"sync"})
             /\ Awaits(rest, Links, Renewals)
  BY <1>1, <1>2, <1>7 DEF InOrder, SelectsAlone, Awaits
<1>8. ASSUME Head(list) = "disconnect"
      PROVE  \E k \in DOMAIN rest : rest[k] \in Renewals \cup {"reset"}
  <2>1. PICK k \in DOMAIN list : 1 < k /\ list[k] \in Renewals \cup {"reset"}
    BY <1>1, <1>8 DEF InOrder, EndsRenewed
  <2>2. k - 1 \in DOMAIN rest /\ rest[k - 1] = list[k]
    BY <1>1, <1>3, <2>1
  <2>3. QED
    BY <2>1, <2>2
<1>9. ASSUME Head(list) = "start"
      PROVE  \A k \in DOMAIN list : list[k] \notin Renewals \cup {"reset"}
  BY <1>1, <1>9 DEF InOrder, StartsAlone
<1>10. QED
  BY <1>5, <1>6, <1>7, <1>8, <1>9 DEF rest

\* What has to wait is not the head.
LEMMA HeadAwaitsNothing ==
  ASSUME NEW list \in Seq(Steps), list # <<>>, NEW Kind, NEW Before, Awaits(list, Kind, Before)
  PROVE  Head(list) \notin Kind
<1>1. 1 \in DOMAIN list /\ Head(list) = list[1] /\ DOMAIN list = 1..Len(list) /\ Len(list) \in Nat
  OBVIOUS
<1>2. QED
  BY <1>1 DEF Awaits

\* A whole script: nothing in it relies on what went before.
Complete(list) ==
  /\ InOrder(list)
  /\ Awaits(list, Links, Renewals)
  /\ Awaits(list, Beginnings, {"default"})
  /\ Awaits(list, {"default"}, {"sync"})

\* The scripts that begin a session.
LEMMA HostInOrder == Complete(StartHost)
<1> DEFINE list == StartHost
<1>1. /\ list \in Seq(Steps) /\ DOMAIN list = 1..7
      /\ list[1] = "sync" /\ list[2] = "default" /\ list[3] = "host"
      /\ list[4] = "transport" /\ list[5] = "connect" /\ list[6] = "poll" /\ list[7] = "offer"
  BY DEF StartHost, Steps
<1> HIDE DEF list
<1>2. \A i \in DOMAIN list : i \in {1, 2, 3, 4, 5, 6, 7}
  BY <1>1
<1>3. LinksRenewed(list) /\ StartsAlone(list) /\ EndsRenewed(list)
  BY <1>1, <1>2 DEF LinksRenewed, StartsAlone, EndsRenewed, Links, Uses, Renewals
<1>4. DefaultsLast(list) /\ SelectsAlone(list)
  BY <1>1, <1>2 DEF DefaultsLast, SelectsAlone, Beginnings, Links
<1>5. /\ Awaits(list, Links, Renewals)
      /\ Awaits(list, Beginnings, {"default"}) /\ Awaits(list, {"default"}, {"sync"})
  BY <1>1, <1>2 DEF Awaits, Links, Renewals, Beginnings
<1>6. QED
  BY <1>1, <1>3, <1>4, <1>5 DEF Complete, InOrder, list

LEMMA ViewerInOrder == Complete(StartViewer)
<1> DEFINE list == StartViewer
<1>1. /\ list \in Seq(Steps) /\ DOMAIN list = 1..5
      /\ list[1] = "sync" /\ list[2] = "viewer"
      /\ list[3] = "transport" /\ list[4] = "connect" /\ list[5] = "poll"
  BY DEF StartViewer, Steps
<1> HIDE DEF list
<1>2. \A i \in DOMAIN list : i \in {1, 2, 3, 4, 5}
  BY <1>1
<1>3. LinksRenewed(list) /\ StartsAlone(list) /\ EndsRenewed(list)
  BY <1>1, <1>2 DEF LinksRenewed, StartsAlone, EndsRenewed, Links, Uses, Renewals
<1>4. DefaultsLast(list) /\ SelectsAlone(list)
  BY <1>1, <1>2 DEF DefaultsLast, SelectsAlone, Beginnings, Links
<1>5. /\ Awaits(list, Links, Renewals)
      /\ Awaits(list, Beginnings, {"default"}) /\ Awaits(list, {"default"}, {"sync"})
  BY <1>1, <1>2 DEF Awaits, Links, Renewals, Beginnings
<1>6. QED
  BY <1>1, <1>3, <1>4, <1>5 DEF Complete, InOrder, list

\* A disconnection may precede a list that renews the state before its links.
LEMMA DisconnectionInOrder ==
  ASSUME NEW list, Complete(list),
         \A i \in DOMAIN list : list[i] \notin {"start", "select", "reset"},
         \E k \in DOMAIN list : list[k] \in Renewals
  PROVE  Complete(<<"disconnect">> \o list)
<1>0. InOrder(list)
  BY DEF Complete
<1> DEFINE long == <<"disconnect">> \o list
<1>1. /\ long \in Seq(Steps)
      /\ DOMAIN list = 1..Len(list) /\ DOMAIN long = 1..(Len(list) + 1)
      /\ Len(list) \in Nat /\ long[1] = "disconnect" /\ list \in Seq(Steps)
      /\ "disconnect" \in Steps
  BY <1>0 DEF Steps, InOrder
<1>2. \A i \in DOMAIN long : i # 1 => i - 1 \in DOMAIN list /\ long[i] = list[i - 1]
  BY <1>1
<1>3. \A i \in DOMAIN list : i + 1 \in DOMAIN long /\ long[i + 1] = list[i]
  BY <1>1
<1> HIDE DEF long
<1>4. LinksRenewed(long)
  <2> SUFFICES ASSUME NEW i \in DOMAIN long, NEW j \in DOMAIN long,
                      j < i, long[i] \in Links, long[j] \in Uses
               PROVE  \E k \in DOMAIN long : j < k /\ k < i /\ long[k] \in Renewals
    BY DEF LinksRenewed
  <2>1. i # 1
    BY <1>1 DEF Links
  <2>2. CASE j = 1
    <3>1. PICK k \in DOMAIN list : k < i - 1 /\ list[k] \in Renewals
      BY <1>2, <2>1 DEF Complete, Awaits
    <3>2. k + 1 \in DOMAIN long /\ long[k + 1] = list[k] /\ j < k + 1 /\ k + 1 < i
      BY <1>1, <1>3, <2>2, <3>1
    <3>3. QED
      BY <3>1, <3>2
  <2>3. CASE j # 1
    <3>1. PICK k \in DOMAIN list : j - 1 < k /\ k < i - 1 /\ list[k] \in Renewals
      BY <1>0, <1>2, <2>1, <2>3 DEF InOrder, LinksRenewed
    <3>2. k + 1 \in DOMAIN long /\ long[k + 1] = list[k] /\ j < k + 1 /\ k + 1 < i
      BY <1>1, <1>3, <3>1
    <3>3. QED
      BY <3>1, <3>2
  <2>4. QED
    BY <2>2, <2>3
<1>5. StartsAlone(long)
  BY <1>1, <1>2 DEF StartsAlone
<1>6. EndsRenewed(long)
  <2> SUFFICES ASSUME NEW i \in DOMAIN long, long[i] = "disconnect"
               PROVE  \E k \in DOMAIN long : i < k /\ long[k] \in Renewals \cup {"reset"}
    BY DEF EndsRenewed
  <2>1. PICK k \in DOMAIN list : (i # 1 => i - 1 < k) /\ list[k] \in Renewals \cup {"reset"}
    BY <1>0, <1>2 DEF InOrder, EndsRenewed
  <2>2. k + 1 \in DOMAIN long /\ long[k + 1] = list[k] /\ i < k + 1
    BY <1>1, <1>3, <2>1
  <2>3. QED
    BY <2>1, <2>2
<1>7. DefaultsLast(long)
  <2> SUFFICES ASSUME NEW i \in DOMAIN long, NEW j \in DOMAIN long,
                      long[i] \in Beginnings, long[j] = "sync"
               PROVE  \E k \in DOMAIN long : j < k /\ k < i /\ long[k] = "default"
    BY DEF DefaultsLast
  <2>1. i # 1 /\ j # 1
    BY <1>1 DEF Beginnings
  <2>2. PICK k \in DOMAIN list : j - 1 < k /\ k < i - 1 /\ list[k] = "default"
    BY <1>0, <1>2, <2>1 DEF InOrder, DefaultsLast
  <2>3. k + 1 \in DOMAIN long /\ long[k + 1] = list[k] /\ j < k + 1 /\ k + 1 < i
    BY <1>1, <1>3, <2>2
  <2>4. QED
    BY <2>2, <2>3
<1>8. SelectsAlone(long)
  BY <1>1, <1>2 DEF SelectsAlone
<1>9. /\ Awaits(long, Links, Renewals)
      /\ Awaits(long, Beginnings, {"default"}) /\ Awaits(long, {"default"}, {"sync"})
  BY <1>1, AwaitsAddition DEF long, Complete, Links, Beginnings
<1>10. QED
  BY <1>1, <1>4, <1>5, <1>6, <1>7, <1>8, <1>9 DEF long, InOrder, Complete

LEMMA ReconnectInOrder ==
  ASSUME mode \in {"idle", "host", "viewer"}
  PROVE  Complete(Reconnect)
<1>1. CASE mode = "host"
  <2> DEFINE list == StartHost
  <2>1. /\ DOMAIN list = 1..7
        /\ list[1] = "sync" /\ list[2] = "default" /\ list[3] = "host"
        /\ list[4] = "transport" /\ list[5] = "connect" /\ list[6] = "poll" /\ list[7] = "offer"
    BY DEF StartHost
  <2> HIDE DEF list
  <2>2. \A i \in DOMAIN list : i \in {1, 2, 3, 4, 5, 6, 7}
    BY <2>1
  <2>3. \A i \in DOMAIN list : list[i] \notin {"start", "select", "reset"}
    BY <2>1, <2>2
  <2>4. \E k \in DOMAIN list : list[k] \in Renewals
    BY <2>1 DEF Renewals
  <2>5. Complete(list)
    BY HostInOrder DEF list
  <2>6. Complete(<<"disconnect">> \o list)
    BY <2>3, <2>4, <2>5, DisconnectionInOrder
  <2>7. QED
    BY <1>1, <2>6 DEF Reconnect, list
<1>2. CASE mode = "viewer"
  <2> DEFINE list == StartViewer
  <2>1. /\ DOMAIN list = 1..5
        /\ list[1] = "sync" /\ list[2] = "viewer"
        /\ list[3] = "transport" /\ list[4] = "connect" /\ list[5] = "poll"
    BY DEF StartViewer
  <2> HIDE DEF list
  <2>2. \A i \in DOMAIN list : i \in {1, 2, 3, 4, 5}
    BY <2>1
  <2>3. \A i \in DOMAIN list : list[i] \notin {"start", "select", "reset"}
    BY <2>1, <2>2
  <2>4. \E k \in DOMAIN list : list[k] \in Renewals
    BY <2>1 DEF Renewals
  <2>5. Complete(list)
    BY ViewerInOrder DEF list
  <2>6. Complete(<<"disconnect">> \o list)
    BY <2>3, <2>4, <2>5, DisconnectionInOrder
  <2>7. QED
    BY <1>2, <2>6 DEF Reconnect, list
<1>3. CASE mode = "idle"
  BY <1>3 DEF Reconnect, Complete, Awaits, InOrder, LinksRenewed, StartsAlone, EndsRenewed, DefaultsLast, SelectsAlone
<1>4. QED
  BY <1>1, <1>2, <1>3

\* The other scripts, which hold no links.
LEMMA ShortInOrder ==
  /\ Complete(StartLocalDemo) /\ Complete(SelectSource) /\ Complete(Refresh)
  /\ Complete(StartStream) /\ Complete(ResetSession) /\ Complete(CaptureCatalog)
  /\ Complete(UpdateConfig) /\ Complete(UpdateUi) /\ Complete(PollStream)
  /\ Complete(StopStream) /\ Complete(StopSession)
<1> USE DEF Complete, Awaits, InOrder, LinksRenewed, StartsAlone, EndsRenewed, DefaultsLast, SelectsAlone,
            Links, Uses, Renewals, Beginnings, Steps
<1>1. Complete(StartLocalDemo)
  BY DEF StartLocalDemo
<1>2. Complete(SelectSource)
  BY DEF SelectSource
<1>3. Complete(Refresh)
  BY DEF Refresh
<1>4. Complete(StartStream)
  BY DEF StartStream
<1>5. Complete(ResetSession)
  BY DEF ResetSession
<1>6. Complete(CaptureCatalog)
  BY DEF CaptureCatalog
<1>7. Complete(UpdateConfig)
  BY DEF UpdateConfig
<1>8. Complete(UpdateUi)
  BY DEF UpdateUi
<1>9. Complete(PollStream)
  BY DEF PollStream
<1>10. Complete(StopStream)
  BY DEF StopStream
<1>11. Complete(StopSession)
  BY DEF StopSession
<1> HIDE DEF Complete
<1>12. QED
  BY <1>1, <1>2, <1>3, <1>4, <1>5, <1>6, <1>7, <1>8, <1>9, <1>10, <1>11

LEMMA ScriptInOrder ==
  ASSUME NEW command \in Commands, mode \in {"idle", "host", "viewer"}
  PROVE  Complete(Script(command))
<1>1. command \in CommandNames
  OBVIOUS
<1>2. \/ Script(command) \in {StartHost, StartViewer, Reconnect, StartLocalDemo, CaptureCatalog}
      \/ Script(command) \in {SelectSource, UpdateConfig, UpdateUi, Refresh, StartStream}
      \/ Script(command) \in {PollStream, StopStream, StopSession, ResetSession}
  BY <1>1 DEF Script, CommandNames
<1>3. QED
  BY <1>2, HostInOrder, ViewerInOrder, ReconnectInOrder, ShortInOrder

-----------------------------------------------------------------------------
(***************************************************************************)
(* Types.                                                                   *)
(***************************************************************************)

\* A session is ready for its links: its state is new.
Fresh ==
  mode # "idle" /\ stage # "stopped" /\ capture = NoCapture /\ webrtc.signaling # "closed"
Prepared == Fresh \/ Awaits(todo, Links, Renewals)

\* How a step of the system changes the list of steps.
ListStep ==
  \/ todo' = todo
  \/ Restart /\ todo' = <<>>
  \/ todo # <<>> /\ todo' = Tail(todo)
  \/ todo # <<>> /\ \E step \in Additions : todo' = <<step>> \o Tail(todo)
  \/ \E step \in Additions : todo' = <<step>> \o todo
  \/ todo = <<>> /\ \E command \in Commands : todo' = Script(command)

LEMMA ListSteps == [Next]_vars => ListStep
<1> SUFFICES ASSUME [Next]_vars PROVE ListStep
  OBVIOUS
<1> USE DEF ListStep, Additions, Done, At
<1>1. ASSUME NEW command \in Commands, Command(command)
      PROVE  ListStep
  BY <1>1 DEF Command, Free
<1>2. CASE Write
  BY <1>2 DEF Write
<1>3. CASE Configuration
  BY <1>3 DEF Configuration, Save
<1>4. CASE Sync
  BY <1>4 DEF Sync, Save
<1>5. CASE Default \/ PollCapture \/ StartCapture \/ Halt
  BY <1>5 DEF Default, PollCapture, StartCapture, Halt
<1>6. CASE Select
  BY <1>6 DEF Select, Save
<1>7. CASE Disconnect \/ Stop \/ Reset \/ Transport \/ Connect
  BY <1>7 DEF Disconnect, Stop, Reset, Transport, Connect
<1>8. ASSUME NEW step, NEW m, NEW s, NEW l, Replace(step, m, s, l)
      PROVE  ListStep
  BY <1>8 DEF Replace
<1>9. CASE Poll \/ HandleWaiting \/ HandlePeer \/ HandleOffer \/ HandleAnswer \/ HandleCandidate
  BY <1>9 DEF Poll, HandleWaiting, HandlePeer, HandleOffer, HandleAnswer, HandleCandidate, Refused
<1>10. CASE Offer \/ Drain \/ Send \/ UpdateStage
  BY <1>10 DEF Offer, Drain, Send, UpdateStage
<1>11. CASE Restart
  BY <1>11 DEF Restart
<1>12. CASE Frame \/ WorkerEnds \/ Callback \/ Server \/ UNCHANGED vars
  BY <1>12 DEF Frame, WorkerEnds, Callback, Server, vars, taskVars
<1>13. QED
  BY <1>1, <1>2, <1>3, <1>4, <1>5, <1>6, <1>7, <1>8, <1>9, <1>10, <1>11, <1>12
     DEF Next, Session

\* The list of steps stays in order.
LEMMA OrderStep ==
  ASSUME InOrder(todo), mode \in {"idle", "host", "viewer"}, [Next]_vars
  PROVE  InOrder(todo')
<1>1. ListStep
  BY ListSteps
<1>2. CASE todo' = todo
  BY <1>2
<1>3. CASE todo' = <<>>
  BY <1>3 DEF InOrder, LinksRenewed, StartsAlone, EndsRenewed, DefaultsLast, SelectsAlone
<1>4. CASE todo # <<>> /\ todo' = Tail(todo)
  BY <1>4, RestInOrder
<1>5. CASE todo # <<>> /\ \E step \in Additions : todo' = <<step>> \o Tail(todo)
  BY <1>5, RestInOrder, AdditionInOrder
<1>6. CASE \E step \in Additions : todo' = <<step>> \o todo
  BY <1>6, AdditionInOrder
<1>7. CASE \E command \in Commands : todo' = Script(command)
  BY <1>7, ScriptInOrder DEF Complete
<1>8. QED
  BY <1>1, <1>2, <1>3, <1>4, <1>5, <1>6, <1>7 DEF ListStep

LEMMA FirstType ==
  ASSUME NEW list \in Seq(Sources), NEW audio \in BOOLEAN
  PROVE  /\ First(list, audio) \in Selections \cup {NoSelection}
         /\ IF First(list, audio) = NoSelection THEN list = <<>>
                                               ELSE First(list, audio).source \in Offered(list)
         /\ ~audio => ~First(list, audio).audio
<1>1. CASE list = <<>>
  BY <1>1 DEF First, NoSelection
<1>2. CASE list # <<>>
  <2>1. Head(list) \in Sources /\ 1 \in DOMAIN list /\ list[1] = Head(list)
    BY <1>2
  <2>2. First(list, audio) = [source |-> Head(list), audio |-> audio /\ Head(list) \in HasAudio]
    BY <1>2 DEF First
  <2>3. First(list, audio) \in Selections
    BY <2>1, <2>2 DEF Selections
  <2>4. First(list, audio).source = Head(list) /\ (~audio => ~First(list, audio).audio)
    BY <2>2
  <2>5. First(list, audio) # NoSelection
    BY <2>1, <2>4 DEF NoSelection
  <2>6. Head(list) \in Offered(list)
    BY <2>1 DEF Offered
  <2>7. QED
    BY <2>3, <2>4, <2>5, <2>6
<1>3. QED
  BY <1>1, <1>2

\* What a look at the catalog makes of the selection.
LEMMA ReboundType ==
  ASSUME NEW list \in Seq(Sources), selection \in Selections \cup {NoSelection}
  PROVE  /\ Rebound(list) \in Selections \cup {NoSelection}
         /\ selection.source \in Offered(list) => Rebound(list) = selection
         /\ selection = NoSelection /\ mode # "host" => Rebound(list) = NoSelection
         /\ Rebound(list) = NoSelection \/ Rebound(list).source \in Offered(list)
         /\ mode = "host" /\ Rebound(list) = NoSelection => list = <<>>
         /\ selection # NoSelection /\ ~selection.audio => ~Rebound(list).audio
<1> DEFINE offered == selection.source \in Offered(list)
<1>1. selection.audio \in BOOLEAN
  <2>1. NoSelection.audio = FALSE
    BY DEF NoSelection
  <2>2. CASE selection \in Selections
    BY <2>2 DEF Selections
  <2>3. QED
    BY <2>1, <2>2
<1>2. NoSelection.source \notin Offered(list)
  BY DEF NoSelection, Offered
<1>3. CASE offered
  <2>1. selection # NoSelection
    BY <1>2, <1>3
  <2>2. Rebound(list) = selection
    BY <1>3, <2>1 DEF Rebound
  <2>3. QED
    BY <1>2, <1>3, <2>2
<1>4. CASE ~offered /\ mode # "host"
  <2>1. Rebound(list) = NoSelection
    BY <1>4 DEF Rebound
  <2>2. ~NoSelection.audio
    BY DEF NoSelection
  <2>3. QED
    BY <1>4, <2>1, <2>2
<1>5. CASE ~offered /\ mode = "host" /\ selection = NoSelection
  <2>1. Rebound(list) = First(list, TRUE)
    BY <1>5 DEF Rebound
  <2>2. QED
    BY <1>5, <2>1, FirstType
<1>6. CASE ~offered /\ mode = "host" /\ selection # NoSelection
  <2>1. Rebound(list) = First(list, selection.audio)
    BY <1>6 DEF Rebound
  <2>2. QED
    BY <1>1, <1>6, <2>1, FirstType
<1>7. QED
  BY <1>3, <1>4, <1>5, <1>6

LEMMA CatalogType ==
  ASSUME NEW observed \in Observations, catalog \in Catalogs
  PROVE  Merged(observed) \in Catalogs /\ Merged(observed).sources \in Seq(Sources)
<1>1. observed \in Catalogs
  OBVIOUS
<1>2. QED
  BY <1>1 DEF Merged, Catalogs

\* The types of what a session starts with.
LEMMA NothingType ==
  /\ NoTransport \in Transports(0..MaxTransports)
  /\ NoCapture \in CaptureStates
  /\ NoClient \in Clients
  /\ NoSelection \in Selections \cup {NoSelection}
<1>1. NoTransport \in Transports(0..MaxTransports)
  BY DEF NoTransport, NewTransport, Transports, TransportRoles, Kinds, ConnectionStates
<1>2. NoCapture \in CaptureStates
  BY DEF NoCapture, CaptureStates
<1>3. NoClient \in Clients
  BY DEF NoClient, Clients
<1>4. QED
  BY <1>1, <1>2, <1>3

LEMMA InitType == Init => TypeOK /\ InOrder(todo)
<1> SUFFICES ASSUME Init PROVE TypeOK /\ InOrder(todo)
  OBVIOUS
<1>1. InOrder(todo)
  BY DEF Init, InOrder, LinksRenewed, StartsAlone, EndsRenewed, DefaultsLast, SelectsAlone
<1>2. events \in Seq(Lines) /\ outbox \in Seq(Signals) /\ sent \subseteq Signals
      /\ optedIn \subseteq Selections
  BY DEF Init
<1>3. catalog \in Catalogs /\ made \in 0..MaxTransports
  BY DEF Init
<1>4. TypeOK
  BY <1>1, <1>2, <1>3, NothingType DEF Init, TypeOK, InOrder, Stages
<1>5. QED
  BY <1>1, <1>4

\* Saving leaves a selection in the file.
LEMMA SaveType ==
  ASSUME TypeOK, NEW kept \in Selections \cup {NoSelection}, NEW rest, Save(kept, rest)
  PROVE  file' \in Selections \cup {NoSelection} /\ optedIn' \subseteq Selections
<1>1. ASSUME kept.audio PROVE kept \in Selections
  BY <1>1 DEF NoSelection
<1>2. QED
  BY <1>1 DEF Save, fileVars, TypeOK

LEMMA TornType ==
  ASSUME NEW kept \in Selections \cup {NoSelection}, NEW torn \in Torn(kept)
  PROVE  torn \in Selections \cup {NoSelection} /\ (torn.audio => torn = kept)
<1>1. CASE torn \in {NoSelection, kept}
  <2>1. ~NoSelection.audio
    BY DEF NoSelection
  <2>2. QED
    BY <1>1, <2>1
<1>2. CASE torn \notin {NoSelection, kept}
  <2>1. kept # NoSelection /\ kept \in Selections
        /\ torn \in [source : Truncated[kept.source] \cup {kept.source}, audio : {FALSE}]
    BY <1>2 DEF Torn
  <2>2. kept.source \in Sources /\ Truncated[kept.source] \subseteq Sources
    BY <2>1 DEF Selections
  <2>3. torn \in Selections /\ ~torn.audio
    BY <2>1, <2>2 DEF Selections
  <2>4. QED
    BY <2>3
<1>3. QED
  BY <1>1, <1>2

LEMMA FunctionIsSeq ==
  ASSUME NEW n \in Nat, NEW S, NEW f \in [1..n -> S]
  PROVE  f \in Seq(S)
OBVIOUS

LEMMA EndType ==
  ASSUME TypeOK, Disconnected
  PROVE  /\ capture' \in CaptureStates /\ counted' \in Sources \cup {NoSource}
         /\ webrtc' \in Transports(0..MaxTransports) /\ made' \in 0..MaxTransports
         /\ client' \in Clients /\ up' \in BOOLEAN /\ sent' \subseteq Signals
<1>1. counted' \in Sources \cup {NoSource}
  <2>1. capture.selection.source \in Sources \cup {NoSource}
    BY DEF TypeOK, CaptureStates, Selections, NoSelection
  <2>2. QED
    BY <2>1 DEF TypeOK, Disconnected, Counted
<1>2. webrtc' \in Transports(0..MaxTransports)
  <2>1. Closed(webrtc) \in Transports(0..MaxTransports)
    BY DEF TypeOK, Closed, Transports, ConnectionStates
  <2>2. QED
    BY <2>1 DEF TypeOK, Disconnected
<1>3. QED
  BY <1>1, <1>2, NothingType DEF TypeOK, Disconnected

LEMMA TypeStep ==
  ASSUME TypeOK, InOrder(todo), Prepared, [Next]_vars
  PROVE  TypeOK'
<1> USE NothingType
<1>0. InOrder(todo') /\ todo' \in Seq(Steps)
  BY OrderStep DEF TypeOK, InOrder
<1>1. ASSUME NEW command \in Commands, Command(command)
      PROVE  TypeOK'
  BY <1>0, <1>1 DEF Command, TypeOK, stageVars, captureVars, peerVars, fileVars
<1>2. CASE Write
  BY <1>0, <1>2, TornType DEF Write, TypeOK, stageVars, captureVars, peerVars
<1>3. CASE Configuration
  BY <1>0, <1>3, SaveType DEF Configuration, TypeOK, stageVars, captureVars, peerVars
<1>4. CASE Sync
  <2>1. PICK observed \in Observations :
          /\ catalog' = Merged(observed) /\ selection' = Rebound(Merged(observed).sources)
          /\ capture' = IF LosesCapture(observed) THEN NoCapture ELSE capture
          /\ counted' = IF LosesCapture(observed) THEN NoSource ELSE counted
    BY <1>4 DEF Sync
  <2>2. catalog' \in Catalogs /\ selection' \in Selections \cup {NoSelection}
    BY <2>1, CatalogType, ReboundType DEF TypeOK
  <2>3. capture' \in CaptureStates /\ counted' \in Sources \cup {NoSource}
    BY <2>1 DEF TypeOK
  <2>4. file' \in Selections \cup {NoSelection} /\ optedIn' \subseteq Selections
    BY <1>4, <2>2, SaveType DEF Sync, TypeOK, fileVars
  <2>5. QED
    BY <1>0, <1>4, <2>2, <2>3, <2>4 DEF Sync, TypeOK, stageVars, peerVars
<1>5. CASE Default
  <2>1. selection' \in Selections \cup {NoSelection}
    BY <1>5, FirstType DEF Default, TypeOK, Catalogs
  <2>2. QED
    BY <1>0, <1>5, <2>1 DEF Default, TypeOK, stageVars, peerVars, fileVars
<1>6. CASE Select
  <2>1. PICK source \in Sources, audio \in BOOLEAN :
          LET picked == [source |-> source, audio |-> audio /\ source \in HasAudio]
          IN IF source \in Offered(catalog.sources)
               THEN /\ selection' = picked
                    /\ capture' = IF picked = selection THEN capture ELSE NoCapture
                    /\ counted' = IF picked = selection THEN counted ELSE NoSource
                    /\ Save(picked, Tail(todo))
               ELSE Done /\ UNCHANGED <<selection, capture, counted, fileVars>>
    BY <1>6 DEF Select
  <2> DEFINE picked == [source |-> source, audio |-> audio /\ source \in HasAudio]
  <2>2. picked \in Selections
    BY DEF Selections
  <2> HIDE DEF picked
  <2>3. CASE source \in Offered(catalog.sources)
    <3>1. /\ selection' = picked
          /\ capture' = IF picked = selection THEN capture ELSE NoCapture
          /\ counted' = IF picked = selection THEN counted ELSE NoSource
          /\ Save(picked, Tail(todo))
      BY <2>1, <2>3 DEF picked
    <3>2. file' \in Selections \cup {NoSelection} /\ optedIn' \subseteq Selections
      BY <2>2, <3>1, SaveType
    <3>3. QED
      BY <1>0, <1>6, <2>2, <3>1, <3>2 DEF Select, TypeOK, stageVars, peerVars
  <2>4. CASE source \notin Offered(catalog.sources)
    <3>1. UNCHANGED <<selection, capture, counted, fileVars>>
      BY <2>1, <2>4
    <3>2. QED
      BY <1>0, <1>6, <3>1 DEF Select, TypeOK, stageVars, peerVars, fileVars
  <2>5. QED
    BY <2>3, <2>4
<1>7. CASE PollCapture
  <2>1. capture' \in CaptureStates
    BY <1>7 DEF PollCapture, TypeOK, CaptureStates
  <2>2. capture.selection.source \in Sources \cup {NoSource}
    BY DEF TypeOK, CaptureStates, Selections, NoSelection
  <2>3. counted' \in Sources \cup {NoSource}
    BY <1>7, <2>2 DEF PollCapture, Counted, TypeOK
  <2>4. QED
    BY <1>0, <1>7, <2>1, <2>3 DEF PollCapture, TypeOK, stageVars, peerVars, fileVars
<1>8. CASE StartCapture
  <2>1. webrtc.id \in 0..MaxTransports
    BY DEF TypeOK, Transports
  <2>2. capture' \in CaptureStates /\ counted' \in Sources \cup {NoSource}
    BY <1>8, <2>1 DEF StartCapture, TypeOK, CaptureStates
  <2>3. QED
    BY <1>0, <1>8, <2>2 DEF StartCapture, TypeOK, stageVars, peerVars, fileVars
<1>9. CASE Halt
  <2>1. capture' \in CaptureStates
    BY <1>9 DEF Halt, TypeOK, CaptureStates
  <2>2. QED
    BY <1>0, <1>9, <2>1 DEF Halt, TypeOK, stageVars, peerVars, fileVars
<1>10. CASE Frame \/ WorkerEnds
  <2>1. capture' \in CaptureStates
    BY <1>10 DEF Frame, WorkerEnds, TypeOK, CaptureStates
  <2>2. QED
    BY <1>0, <1>10, <2>1 DEF Frame, WorkerEnds, TypeOK, taskVars, stageVars, peerVars, fileVars
<1>11. CASE Disconnect
  BY <1>0, <1>11, EndType DEF Disconnect, TypeOK, stageVars, fileVars
<1>12. CASE Stop
  BY <1>0, <1>12, EndType DEF Stop, TypeOK, Stages, fileVars
<1>13. ASSUME NEW step, NEW m \in {"host", "viewer"}, NEW s \in Stages, NEW l \in {"mock", "live"},
              Replace(step, m, s, l)
       PROVE  TypeOK'
  BY <1>0, <1>13 DEF Replace, TypeOK, fileVars
<1>14. CASE Reset
  BY <1>0, <1>14 DEF Reset, TypeOK, Stages, fileVars
<1>15. CASE Restart
  <2>1. file' \in Selections \cup {NoSelection}
    BY <1>15, TornType DEF Restart, TypeOK
  <2>2. events' \in Seq(Lines) /\ outbox' \in Seq(Signals) /\ sent' \subseteq Signals
        /\ optedIn' \subseteq Selections
    BY <1>15 DEF Restart, TypeOK
  <2>3. catalog' \in Catalogs /\ made' \in 0..MaxTransports
    BY <1>15 DEF Restart
  <2>4. QED
    BY <1>0, <1>15, <2>1, <2>2, <2>3 DEF Restart, TypeOK, Stages
<1>16. CASE Transport
  <2>1. mode \in TransportRoles
    BY <1>16, HeadAwaitsNothing DEF Transport, At, Prepared, Fresh, TypeOK, TransportRoles, Links
  <2>2. made < MaxTransports =>
          NewTransport(made + 1, mode) \in Transports(0..MaxTransports) /\ made + 1 \in 0..MaxTransports
    BY <2>1 DEF TypeOK, NewTransport, Transports, Kinds, ConnectionStates
  <2>3. webrtc' \in Transports(0..MaxTransports) /\ made' \in 0..MaxTransports
    BY <1>16, <2>2 DEF Transport, TypeOK
  <2>4. QED
    BY <1>0, <1>16, <2>3 DEF Transport, TypeOK, stageVars, captureVars, fileVars
<1>17. CASE Connect
  <2>1. NewClient \in Clients
    BY DEF NewClient, Clients
  <2>2. QED
    BY <1>0, <1>17, <2>1 DEF Connect, TypeOK, stageVars, captureVars, fileVars
<1>18. CASE Poll
  <2>1. client.arrived \in Seq(Lines) /\ client.ended \in {"none", "open", "eof", "reset"}
    BY DEF TypeOK, Clients
  <2>2. (client.ended = "eof") \in BOOLEAN /\ <<>> \in Seq(Lines)
    OBVIOUS
  <2>3. Polled(client) \in Clients
    BY <2>1, <2>2 DEF TypeOK, Clients, Polled
  <2>4. QED
    BY <1>0, <1>18, <2>1, <2>3 DEF Poll, TypeOK, stageVars, captureVars, fileVars
<1>19. ASSUME NEW line, NextEvent(line)
       PROVE  /\ events' \in Seq(Lines) /\ mode' \in {"idle", "host", "viewer"} /\ link' \in {"mock", "live"}
              /\ catalog' \in Catalogs /\ selection' \in Selections \cup {NoSelection}
              /\ capture' \in CaptureStates /\ counted' \in Sources \cup {NoSource}
              /\ made' \in 0..MaxTransports /\ client' \in Clients /\ up' \in BOOLEAN
              /\ sent' \subseteq Signals
              /\ file' \in Selections \cup {NoSelection} /\ optedIn' \subseteq Selections
  BY <1>19 DEF NextEvent, TypeOK, captureVars, fileVars
<1>20. CASE HandleWaiting \/ HandlePeer \/ HandleCandidate
  BY <1>0, <1>19, <1>20 DEF HandleWaiting, HandlePeer, HandleCandidate, Refused, TypeOK, Stages
<1>21. CASE HandleOffer
  <2>1. WithRemoteOffer(webrtc) \in Transports(0..MaxTransports)
    BY DEF TypeOK, Transports, WithRemoteOffer, Kinds
  <2>2. <<Description>> \in Seq(Signals)
    BY DEF Description, Signals
  <2>3. QED
    BY <1>0, <1>19, <1>21, <2>1, <2>2 DEF HandleOffer, Refused, TypeOK, Stages
<1>22. CASE HandleAnswer
  <2>1. WithRemoteAnswer(webrtc) \in Transports(0..MaxTransports)
    BY DEF TypeOK, Transports, WithRemoteAnswer, Kinds
  <2>2. QED
    BY <1>0, <1>19, <1>22, <2>1 DEF HandleAnswer, Refused, TypeOK, Stages
<1>23. CASE Offer
  <2>1. WithLocalOffer(webrtc) \in Transports(0..MaxTransports)
    BY DEF TypeOK, Transports, WithLocalOffer, Kinds
  <2>2. <<Description>> \in Seq(Signals)
    BY DEF Description, Signals
  <2>3. QED
    BY <1>0, <1>23, <2>1, <2>2 DEF Offer, TypeOK, Stages, captureVars, fileVars
<1>24. CASE Drain
  <2>1. webrtc.gathered \in 0..MaxCandidates /\ webrtc.drained \in 0..MaxCandidates
    BY DEF TypeOK, Transports
  <2>2. Drained(webrtc) \in Transports(0..MaxTransports)
    BY DEF TypeOK, Transports, Drained
  <2> DEFINE n == webrtc.gathered - webrtc.drained
             next == [i \in 1..n |-> webrtc.drained + i]
  <2>3. \A i \in 1..n : webrtc.drained + i \in Signals
    BY <2>1 DEF Signals
  <2>4. next \in Seq(Signals)
    <3>1. CASE n \in Nat
      BY <2>3, <3>1
    <3>2. CASE n \notin Nat
      <4>1. 1..n = 1..0
        BY <2>1, <3>2
      <4>2. next \in [1..0 -> Signals]
        BY <4>1
      <4>3. QED
        BY <4>2, FunctionIsSeq
    <3>3. QED
      BY <3>1, <3>2
  <2>5. outbox' = next
    BY <1>24 DEF Drain
  <2> HIDE DEF next
  <2>6. QED
    BY <1>0, <1>24, <2>2, <2>4, <2>5 DEF Drain, TypeOK, stageVars, captureVars, fileVars
<1>25. CASE Send
  <2>1. Tail(outbox) \in Seq(Signals) /\ Head(outbox) \in Signals
    BY <1>25 DEF Send, TypeOK
  <2>2. QED
    BY <1>0, <1>25, <2>1 DEF Send, Unsent, TypeOK, stageVars, captureVars, fileVars
<1>26. CASE UpdateStage
  BY <1>0, <1>26 DEF UpdateStage, TypeOK, Stages, captureVars, peerVars, fileVars
<1>27. CASE Callback
  <2>1. webrtc.gathered \in 0..MaxCandidates
    BY DEF TypeOK, Transports
  <2>2. CanGather(webrtc) => Gathered(webrtc) \in Transports(0..MaxTransports)
    <3>1. CanGather(webrtc) => webrtc.gathered + 1 \in 0..MaxCandidates
      BY <2>1 DEF CanGather
    <3>2. QED
      BY <3>1 DEF TypeOK, Transports, Gathered
  <2>3. \A state \in ConnectionStates : WithState(webrtc, state) \in Transports(0..MaxTransports)
    BY DEF TypeOK, Transports, WithState
  <2>4. webrtc' \in Transports(0..MaxTransports)
    BY <1>27, <2>2, <2>3 DEF Callback
  <2>5. QED
    BY <1>0, <1>27, <2>4 DEF Callback, TypeOK, taskVars, stageVars, captureVars, fileVars
<1>28. CASE Server
  <2>1. ASSUME NEW line \in Lines
        PROVE  Arrived(client, line) \in Clients
    <3>1. Append(client.arrived, line) \in Seq(Lines)
      BY DEF TypeOK, Clients
    <3>2. QED
      BY <3>1 DEF TypeOK, Clients, Arrived
  <2>2. \A how \in {"eof", "reset"} : Ended(client, how) \in Clients
    BY DEF TypeOK, Clients, Ended
  <2>3. QED
    BY <1>0, <1>28, <2>1, <2>2 DEF Server, TypeOK, taskVars, stageVars, captureVars, fileVars
<1>29. CASE UNCHANGED vars
  BY <1>29 DEF vars, taskVars, stageVars, captureVars, peerVars, fileVars, TypeOK
<1>30. QED
  BY <1>1, <1>2, <1>3, <1>4, <1>5, <1>6, <1>7, <1>8, <1>9, <1>10, <1>11, <1>12, <1>13, <1>14,
     <1>15, <1>16, <1>17, <1>18, <1>20, <1>21, <1>22, <1>23, <1>24, <1>25, <1>26, <1>27, <1>28,
     <1>29 DEF Next, Session, Stages

-----------------------------------------------------------------------------
(***************************************************************************)
(* The invariants.                                                          *)
(***************************************************************************)
EndsAhead(list) == \E k \in DOMAIN list : list[k] \in Renewals \cup {"reset"}

\* A closed transport has no connection to the server, and nothing left to handle.
Quiet == webrtc.signaling = "closed" => client = NoClient /\ events = <<>>

\* A closed transport belongs to a session that is stopped or about to be replaced.
Closing == webrtc.signaling = "closed" => stage = "stopped" \/ EndsAhead(todo)

\* Nobody hears from a stopped session.
Silent == stage = "stopped" => client = NoClient /\ ~up /\ events = <<>>

Capturing ==
  capture.running =>
    /\ mode = "host" /\ stage # "stopped"
    /\ capture.selection = selection /\ selection # NoSelection

\* The selection is one of the catalog, or a look at the catalog comes before
\* the default; it is what a host needs, or the default comes before the host.
Valid     == selection = NoSelection \/ selection.source \in Offered(catalog.sources)
Suitable  == IF selection = NoSelection THEN catalog.sources = <<>>
                                       ELSE selection.source \in Offered(catalog.sources)
Synced    == Valid \/ Awaits(todo, {"default"}, {"sync"})
Defaulted == Suitable \/ Awaits(todo, Beginnings, {"default"})

\* Which steps of the list only their own actions do.
Milestones == Renewals \cup {"default", "sync", "reset", "start"}

LEMMA HeadSteps ==
  ASSUME [Next]_vars, todo # <<>>
  PROVE  \/ todo' = todo \/ Restart
         \/ \E step \in Additions : todo' = <<step>> \o todo
         \/ Head(todo) \notin Milestones
         \/ Head(todo) = "host" /\ Replace("host", "host", "configured", "live")
         \/ Head(todo) = "viewer" /\ Replace("viewer", "viewer", "awaiting", "live")
         \/ Head(todo) = "default" /\ Default
         \/ Head(todo) = "sync" /\ Sync
         \/ Head(todo) = "reset" /\ Reset
         \/ Head(todo) = "start" /\ StartCapture
<1> USE DEF Milestones, Renewals, Additions, At, Done
<1>1. ASSUME NEW command \in Commands, Command(command)
      PROVE  FALSE
  BY <1>1 DEF Command, Free
<1>2. CASE Write \/ Configuration \/ Select \/ PollCapture \/ Halt
  BY <1>2 DEF Write, Configuration, Select, PollCapture, Halt
<1>3. CASE Sync \/ Default \/ StartCapture \/ Reset
  BY <1>3 DEF Sync, Default, StartCapture, Reset
<1>4. CASE Disconnect \/ Stop \/ Transport \/ Connect \/ Poll
  BY <1>4 DEF Disconnect, Stop, Transport, Connect, Poll
<1>5. CASE \/ Replace("host", "host", "configured", "live")
           \/ Replace("viewer", "viewer", "awaiting", "live")
           \/ Replace("demo", "host", "mock", "mock")
  BY <1>5 DEF Replace
<1>6. CASE HandleWaiting \/ HandlePeer \/ HandleOffer \/ HandleAnswer \/ HandleCandidate
  BY <1>6 DEF HandleWaiting, HandlePeer, HandleOffer, HandleAnswer, HandleCandidate, Refused
<1>7. CASE Offer \/ Drain \/ Send \/ UpdateStage
  BY <1>7 DEF Offer, Drain, Send, UpdateStage
<1>8. CASE Restart
  BY <1>8 DEF Restart
<1>9. CASE Frame \/ WorkerEnds \/ Callback \/ Server \/ UNCHANGED vars
  BY <1>9 DEF Frame, WorkerEnds, Callback, Server, vars, taskVars
<1>10. QED
  BY <1>1, <1>2, <1>3, <1>4, <1>5, <1>6, <1>7, <1>8, <1>9 DEF Next, Session

\* What a list awaits, it awaits until one of the steps it names is done.
LEMMA AwaitsStep ==
  ASSUME [Next]_vars, InOrder(todo), NEW Kind, NEW Before, Awaits(todo, Kind, Before),
         \A step \in Additions : step \notin Kind,
         \A command \in Commands : Awaits(Script(command), Kind, Before)
  PROVE  \/ Awaits(todo', Kind, Before)
         \/ /\ todo # <<>> /\ Head(todo) \in Before
            /\ todo' # todo /\ ~Restart /\ \A step \in Additions : todo' # <<step>> \o todo
<1>0. todo \in Seq(Steps) /\ Additions \subseteq Steps
  BY DEF InOrder, Additions, Steps
<1>1. ListStep
  BY ListSteps
<1>2. ASSUME todo' = todo
      PROVE  Awaits(todo', Kind, Before)
  BY <1>2
<1>3. ASSUME Restart
      PROVE  Awaits(todo', Kind, Before)
  BY <1>3 DEF Awaits, Restart
<1>4. ASSUME NEW step \in Additions, todo' = <<step>> \o todo
      PROVE  Awaits(todo', Kind, Before)
  BY <1>0, <1>4, AwaitsAddition
<1>5. ASSUME todo # <<>>, Head(todo) \notin Before
      PROVE  Awaits(Tail(todo), Kind, Before) /\ Tail(todo) \in Seq(Steps)
  BY <1>0, <1>5, AwaitsRest
<1>6. ASSUME todo # <<>>, Head(todo) \notin Before, NEW step \in Additions, todo' = <<step>> \o Tail(todo)
      PROVE  Awaits(todo', Kind, Before)
  BY <1>0, <1>5, <1>6, AwaitsAddition
<1>7. ASSUME NEW command \in Commands, todo' = Script(command)
      PROVE  Awaits(todo', Kind, Before)
  BY <1>7
<1>8. QED
  BY <1>1, <1>2, <1>3, <1>4, <1>5, <1>6, <1>7 DEF ListStep

\* Only a disconnection closes a transport.
LEMMA SignalingStep ==
  ASSUME TypeOK, [Next]_vars, webrtc'.signaling = "closed", webrtc.signaling # "closed"
  PROVE  Disconnect \/ Stop
<1>0. NoTransport.signaling = "stable"
  BY DEF NoTransport, NewTransport
<1> USE DEF TypeOK, Transports
<1>1. ASSUME NEW command \in Commands, Command(command)
      PROVE  FALSE
  BY <1>1 DEF Command, peerVars
<1>2. CASE \/ Write \/ Configuration \/ Sync \/ Default \/ Select
           \/ PollCapture \/ StartCapture \/ Halt
  BY <1>2 DEF Write, Configuration, Sync, Default, Select, PollCapture, StartCapture, Halt, peerVars
<1>3. CASE Reset \/ Restart
  BY <1>0, <1>3 DEF Reset, Restart
<1>4. ASSUME NEW step, NEW m, NEW s, NEW l, Replace(step, m, s, l)
      PROVE  FALSE
  BY <1>0, <1>4 DEF Replace
<1>5. CASE Transport \/ Connect \/ Poll
  BY <1>5 DEF Transport, Connect, Poll, NewTransport
<1>6. CASE HandleWaiting \/ HandlePeer \/ HandleOffer \/ HandleAnswer \/ HandleCandidate
  BY <1>6 DEF HandleWaiting, HandlePeer, HandleOffer, HandleAnswer, HandleCandidate, Refused,
     WithRemoteOffer, WithRemoteAnswer
<1>7. CASE Offer \/ Drain \/ Send \/ UpdateStage
  BY <1>7 DEF Offer, Drain, Send, UpdateStage, WithLocalOffer, Drained, peerVars
<1>8. CASE Frame \/ WorkerEnds \/ Callback \/ Server \/ UNCHANGED vars
  BY <1>8 DEF Frame, WorkerEnds, Callback, Server, Gathered, WithState, peerVars, vars
<1>9. QED
  BY <1>1, <1>2, <1>3, <1>4, <1>5, <1>6, <1>7, <1>8 DEF Next, Session

\* Only stop() stops a session.
LEMMA StoppedStep ==
  ASSUME [Next]_vars, stage' = "stopped", stage # "stopped"
  PROVE  Stop
<1>1. ASSUME NEW command \in Commands, Command(command)
      PROVE  stage' = stage
  BY <1>1 DEF Command, stageVars
<1>2. ASSUME \/ Write \/ Configuration \/ Sync \/ Default \/ Select
             \/ PollCapture \/ StartCapture \/ Halt
      PROVE  stage' = stage
  BY <1>2 DEF Write, Configuration, Sync, Default, Select, PollCapture, StartCapture, Halt, stageVars
<1>3. ASSUME Disconnect \/ Transport \/ Connect \/ Poll \/ Drain \/ Send
      PROVE  stage' = stage
  BY <1>3 DEF Disconnect, Transport, Connect, Poll, Drain, Send, stageVars
<1>4. ASSUME \/ Replace("host", "host", "configured", "live")
             \/ Replace("viewer", "viewer", "awaiting", "live")
             \/ Replace("demo", "host", "mock", "mock")
      PROVE  stage' \in {"configured", "awaiting", "mock"}
  BY <1>4 DEF Replace
<1>5. ASSUME Reset \/ Restart
      PROVE  stage' = "idle"
  BY <1>5 DEF Reset, Restart
<1>6. ASSUME HandleWaiting \/ HandlePeer \/ HandleOffer \/ HandleAnswer \/ HandleCandidate
      PROVE  stage' \in {stage, "negotiating"}
  BY <1>6 DEF HandleWaiting, HandlePeer, HandleOffer, HandleAnswer, HandleCandidate, Refused
<1>7. ASSUME Offer \/ UpdateStage
      PROVE  stage' \in {stage, "negotiating", "live"}
  BY <1>7 DEF Offer, UpdateStage
<1>8. ASSUME Frame \/ WorkerEnds \/ Callback \/ Server \/ UNCHANGED vars
      PROVE  stage' = stage
  BY <1>8 DEF Frame, WorkerEnds, Callback, Server, vars, stageVars
<1>9. QED
  BY <1>1, <1>2, <1>3, <1>4, <1>5, <1>6, <1>7, <1>8 DEF Next, Session

\* The links of a session are made for a new one.
LEMMA PreparedStep ==
  ASSUME TypeOK, InOrder(todo), Prepared, [Next]_vars
  PROVE  Prepared'
<1>0. /\ todo \in Seq(Steps) /\ NoTransport.signaling = "stable"
      /\ mode \in {"idle", "host", "viewer"}
  BY DEF InOrder, NoTransport, NewTransport, TypeOK
<1>1. \A command \in Commands : Awaits(Script(command), Links, Renewals)
  BY <1>0, ScriptInOrder DEF Complete
<1>2. ASSUME Awaits(todo, Links, Renewals)
      PROVE  Prepared'
  <2>1. CASE Awaits(todo', Links, Renewals)
    BY <2>1 DEF Prepared
  <2>2. CASE ~Awaits(todo', Links, Renewals)
    <3>1. /\ todo # <<>> /\ Head(todo) \in Renewals
          /\ todo' # todo /\ ~Restart /\ \A step \in Additions : todo' # <<step>> \o todo
      BY <1>1, <1>2, <2>2, AwaitsStep DEF Links, Additions
    <3>3. \/ Replace("host", "host", "configured", "live")
          \/ Replace("viewer", "viewer", "awaiting", "live")
      BY <3>1, HeadSteps DEF Renewals, Milestones
    <3>4. Fresh'
      BY <1>0, <3>3 DEF Replace, Fresh
    <3>5. QED
      BY <3>4 DEF Prepared
  <2>3. QED
    BY <2>1, <2>2
<1>3. ASSUME Disconnect \/ Stop
      PROVE  Prepared'
  <2>1. todo # <<>> /\ Head(todo) \in Uses /\ todo' = Tail(todo)
    BY <1>3 DEF Disconnect, Stop, At, Done, Uses
  <2>2. Awaits(Tail(todo), Links, Renewals)
    BY <2>1, HeadsInOrder
  <2>3. QED
    BY <2>1, <2>2 DEF Prepared
<1>4. ASSUME StartCapture
      PROVE  Prepared'
  <2>0. At("start")
    BY <1>4 DEF StartCapture
  <2>1. todo # <<>> /\ Head(todo) = "start" /\ Tail(todo) \in Seq(Steps)
    BY <1>0, <2>0 DEF At
  <2>2. Awaits(Tail(todo), Links, Renewals)
    BY <2>1, HeadsInOrder DEF Uses
  <2>3. Awaits(<<"capture">> \o Tail(todo), Links, Renewals)
    BY <2>1, <2>2, AwaitsAddition DEF Links, Steps
  <2>4. todo' = Tail(todo) \/ todo' = <<"capture">> \o Tail(todo)
    BY <1>4 DEF StartCapture, Done
  <2>5. QED
    BY <2>2, <2>3, <2>4 DEF Prepared
<1>5. ASSUME Reset
      PROVE  Prepared'
  <2>1. todo # <<>> /\ Head(todo) = "reset" /\ todo' = Tail(todo)
    BY <1>5 DEF Reset, At, Done
  <2>2. Awaits(Tail(todo), Links, Renewals)
    BY <2>1, HeadsInOrder
  <2>3. QED
    BY <2>1, <2>2 DEF Prepared
<1>6. ASSUME Restart
      PROVE  Prepared'
  <2>1. Awaits(<<>>, Links, Renewals)
    BY DEF Awaits
  <2>2. QED
    BY <1>6, <2>1 DEF Restart, Prepared
<1>7. ASSUME NEW command \in Commands, Command(command)
      PROVE  Prepared'
  BY <1>1, <1>7 DEF Command, Prepared
<1>8. ASSUME NEW step, NEW m \in {"host", "viewer"}, NEW s, NEW l, Replace(step, m, s, l),
             s # "stopped"
      PROVE  Fresh'
  BY <1>0, <1>8 DEF Replace, Fresh
<1>9. ASSUME Fresh, ~Disconnect, ~Stop
      PROVE  Prepared'
  <2>01. ~NoCapture.running /\ ~NoCapture.frame
    BY DEF NoCapture
  <2>02. /\ [capture EXCEPT !.frame = FALSE] = capture
         /\ [capture EXCEPT !.running = FALSE] = capture
    BY <1>9, <2>01 DEF Fresh, TypeOK, CaptureStates
  <2>0. /\ capture = NoCapture /\ ~capture.running /\ mode # "idle"
        /\ [capture EXCEPT !.frame = FALSE] = capture /\ [capture EXCEPT !.running = FALSE] = capture
    BY <1>9, <2>01, <2>02 DEF Fresh
  <2>1. webrtc'.signaling # "closed" /\ stage' # "stopped"
    BY <1>9, SignalingStep, StoppedStep DEF Fresh
  <2>2. capture' = NoCapture /\ mode' = mode => Prepared'
    BY <2>0, <2>1 DEF Fresh, Prepared
  <2>3. CASE Write \/ Configuration \/ Default \/ Sync \/ Select
    BY <2>0, <2>2, <2>3 DEF Write, Configuration, Default, Sync, Select, captureVars, stageVars
  <2>4. CASE PollCapture \/ Halt
    BY <2>0, <2>2, <2>4 DEF PollCapture, Halt, stageVars
  <2>5. CASE Transport \/ Connect \/ Poll
    BY <2>0, <2>2, <2>5 DEF Transport, Connect, Poll, stageVars, captureVars
  <2>6. CASE HandleWaiting \/ HandlePeer \/ HandleOffer \/ HandleAnswer \/ HandleCandidate
    BY <2>0, <2>2, <2>6 DEF HandleWaiting, HandlePeer, HandleOffer, HandleAnswer, HandleCandidate,
       NextEvent, captureVars
  <2>7. CASE Offer \/ Drain \/ Send \/ UpdateStage
    BY <2>0, <2>2, <2>7 DEF Offer, Drain, Send, UpdateStage, stageVars, captureVars
  <2>8. ~Frame /\ ~WorkerEnds
    BY <2>0 DEF Frame, WorkerEnds
  <2>9. CASE Callback \/ Server \/ UNCHANGED vars
    BY <2>0, <2>2, <2>9 DEF Callback, Server, vars, stageVars, captureVars
  <2>10. QED
    BY <1>4, <1>5, <1>6, <1>7, <1>8, <1>9, <2>3, <2>4, <2>5, <2>6, <2>7, <2>8, <2>9
       DEF Next, Session, Prepared
<1>10. QED
  BY <1>2, <1>3, <1>9 DEF Prepared

\* No line is received for a closed transport.
LEMMA QuietStep ==
  ASSUME TypeOK, InOrder(todo), Prepared, Quiet, [Next]_vars
  PROVE  Quiet'
<1> SUFFICES ASSUME webrtc'.signaling = "closed"
             PROVE  client' = NoClient /\ events' = <<>>
  BY DEF Quiet
<1>1. CASE Disconnect \/ Stop
  BY <1>1 DEF Disconnect, Stop, Disconnected, At
<1>2. CASE ~(Disconnect \/ Stop)
  <2>1. webrtc.signaling = "closed"
    BY <1>2, SignalingStep
  <2>2. client = NoClient /\ events = <<>> /\ NoClient.ended = "none"
    BY <2>1 DEF Quiet, NoClient
  <2>3. NoTransport.signaling = "stable"
    BY DEF NoTransport, NewTransport
  <2>4. ~Connect
    BY <2>1, HeadAwaitsNothing DEF Connect, At, Prepared, Fresh, Links, InOrder
  <2>5. ASSUME NEW command \in Commands, Command(command)
        PROVE  UNCHANGED <<client, events>>
    BY <2>5 DEF Command, peerVars
  <2>6. ASSUME \/ Write \/ Configuration \/ Sync \/ Default \/ Select
               \/ PollCapture \/ StartCapture \/ Halt
        PROVE  UNCHANGED <<client, events>>
    BY <2>6 DEF Write, Configuration, Sync, Default, Select, PollCapture, StartCapture, Halt, peerVars
  <2>7. ASSUME NEW step, NEW m, NEW s, NEW l, Replace(step, m, s, l)
        PROVE  client' = NoClient /\ events' = events
    BY <2>7 DEF Replace
  <2>8. ASSUME Reset \/ Restart \/ Poll \/ Transport
        PROVE  client' = NoClient /\ events' \in {events, <<>>}
    BY <2>2, <2>8 DEF Reset, Restart, Poll, Transport, Connected
  <2>9. ~HandleWaiting /\ ~HandlePeer /\ ~HandleOffer /\ ~HandleAnswer /\ ~HandleCandidate
    BY <2>2 DEF HandleWaiting, HandlePeer, HandleOffer, HandleAnswer, HandleCandidate, NextEvent
  <2>10. ASSUME Offer \/ Drain \/ Send \/ UpdateStage
         PROVE  UNCHANGED <<client, events>>
    BY <2>10 DEF Offer, Drain, Send, UpdateStage, peerVars
  <2>11. ~Server
    BY <2>2 DEF Server, CanArrive
  <2>12. ASSUME Frame \/ WorkerEnds \/ Callback \/ UNCHANGED vars
         PROVE  UNCHANGED <<client, events>>
    BY <2>12 DEF Frame, WorkerEnds, Callback, vars, taskVars, peerVars
  <2>13. QED
    BY <1>2, <2>2, <2>4, <2>5, <2>6, <2>7, <2>8, <2>9, <2>10, <2>11, <2>12 DEF Next, Session
<1>3. QED
  BY <1>1, <1>2

\* A step that ends or replaces a session stays ahead until it is done.
LEMMA EndsAheadStep ==
  ASSUME [Next]_vars, InOrder(todo), EndsAhead(todo),
         ~Reset, ~Restart, \A step, m, s, l : ~Replace(step, m, s, l)
  PROVE  EndsAhead(todo')
<1> DEFINE Ends == Renewals \cup {"reset"}
<1>1. /\ todo \in Seq(Steps) /\ DOMAIN todo = 1..Len(todo) /\ Len(todo) \in Nat
      /\ Additions \subseteq Steps
  BY DEF InOrder, Additions, Steps
<1>2. PICK k \in DOMAIN todo : todo[k] \in Ends
  BY DEF EndsAhead
<1>3. /\ todo # <<>> /\ 1 \in DOMAIN todo /\ Head(todo) = todo[1]
  BY <1>1, <1>2
<1>4. ListStep
  BY ListSteps
<1>5. CASE todo' = todo
  BY <1>5
<1>6. ASSUME NEW step \in Additions, todo' = <<step>> \o todo
      PROVE  EndsAhead(todo')
  <2>1. k + 1 \in DOMAIN todo' /\ todo'[k + 1] = todo[k]
    BY <1>1, <1>6
  <2>2. QED
    BY <1>2, <2>1 DEF EndsAhead
<1>7. CASE todo' # todo /\ ~Restart /\ \A step \in Additions : todo' # <<step>> \o todo
  <2>1. Head(todo) \notin Ends
    BY <1>3, <1>7, HeadSteps DEF Milestones, Renewals
  <2>2. k - 1 \in 1..Len(todo) - 1 /\ Len(todo) - 1 \in Nat
    BY <1>1, <1>2, <1>3, <2>1
  <2>3. CASE todo' = Tail(todo)
    <3>1. k - 1 \in DOMAIN todo' /\ todo'[k - 1] = todo[k]
      BY <1>1, <1>3, <2>2, <2>3
    <3>2. QED
      BY <1>2, <3>1 DEF EndsAhead
  <2>4. ASSUME NEW step \in Additions, todo' = <<step>> \o Tail(todo)
        PROVE  EndsAhead(todo')
    <3>1. k \in DOMAIN todo' /\ todo'[k] = todo[k]
      <4>1. Tail(todo) \in Seq(Steps) /\ Len(Tail(todo)) = Len(todo) - 1
        BY <1>1, <1>3
      <4>2. Tail(todo)[k - 1] = todo[k]
        BY <1>1, <1>3, <2>2
      <4>3. QED
        BY <1>1, <2>2, <2>4, <4>1, <4>2
    <3>2. QED
      BY <1>2, <3>1 DEF EndsAhead
  <2>5. QED
    BY <1>3, <1>4, <1>7, <2>3, <2>4 DEF ListStep
<1>8. QED
  BY <1>5, <1>6, <1>7

\* A closed transport is in a session that has ended or ends with the command.
LEMMA ClosingStep ==
  ASSUME TypeOK, InOrder(todo), Quiet, Closing, [Next]_vars
  PROVE  Closing'
<1> SUFFICES ASSUME webrtc'.signaling = "closed"
             PROVE  stage' = "stopped" \/ EndsAhead(todo')
  BY DEF Closing
<1>0. NoTransport.signaling = "stable"
  BY DEF NoTransport, NewTransport
<1>1. CASE Stop
  BY <1>1 DEF Stop
<1>2. CASE Disconnect
  <2>1. todo # <<>> /\ Head(todo) = "disconnect" /\ todo' = Tail(todo)
    BY <1>2 DEF Disconnect, At, Done
  <2>2. \E k \in DOMAIN Tail(todo) : Tail(todo)[k] \in Renewals \cup {"reset"}
    BY <2>1, HeadsInOrder
  <2>3. QED
    BY <2>1, <2>2 DEF EndsAhead
<1>3. CASE ~Disconnect /\ ~Stop
  <2>1. webrtc.signaling = "closed" /\ events = <<>>
    BY <1>3, SignalingStep DEF Quiet
  <2>2. /\ \A step, m, s, l : ~Replace(step, m, s, l)
        /\ ~Reset /\ ~Restart
    BY <1>0 DEF Replace, Reset, Restart
  <2>3. ~HandleWaiting /\ ~HandlePeer /\ ~HandleOffer /\ ~HandleAnswer /\ ~HandleCandidate
    BY <2>1 DEF HandleWaiting, HandlePeer, HandleOffer, HandleAnswer, HandleCandidate, NextEvent
  <2>4. CASE stage = "stopped"
    <3>1. ASSUME Write \/ Configuration \/ Sync \/ Default \/ Select \/ PollCapture \/ StartCapture \/ Halt
          PROVE  stage' = stage
      BY <3>1 DEF Write, Configuration, Sync, Default, Select, PollCapture, StartCapture, Halt, stageVars
    <3>2. ASSUME Transport \/ Connect \/ Poll \/ Drain \/ Send
          PROVE  stage' = stage
      BY <3>2 DEF Transport, Connect, Poll, Drain, Send, stageVars
    <3>3. ASSUME Offer
          PROVE  stage' = stage
      BY <2>1, <3>3 DEF Offer, CanCreateOffer
    <3>4. ASSUME UpdateStage
          PROVE  stage' = stage
      BY <2>4, <3>4 DEF UpdateStage
    <3>5. ASSUME Frame \/ WorkerEnds \/ Callback \/ Server \/ UNCHANGED vars
          PROVE  stage' = stage
      BY <3>5 DEF Frame, WorkerEnds, Callback, Server, vars, stageVars
    <3>6. ASSUME NEW command \in Commands, Command(command)
          PROVE  stage' = stage
      BY <3>6 DEF Command, stageVars
    <3>7. QED
      BY <1>3, <2>2, <2>3, <2>4, <3>1, <3>2, <3>3, <3>4, <3>5, <3>6 DEF Next, Session
  <2>5. CASE stage # "stopped"
    <3>1. EndsAhead(todo)
      BY <2>1, <2>5 DEF Closing
    <3>2. QED
      BY <2>2, <3>1, EndsAheadStep
  <2>6. QED
    BY <2>4, <2>5
<1>4. QED
  BY <1>1, <1>2, <1>3

\* A source that is offered is a source, so no selection has none.
LEMMA NothingOffered ==
  ASSUME NEW list \in Seq(Sources), NEW kept \in Selections \cup {NoSelection},
         kept.source \in Offered(list)
  PROVE  kept # NoSelection
BY DEF NoSelection, Offered

\* A capture that a look at the catalog spares keeps its selection.
LEMMA SparedCapture ==
  ASSUME TypeOK, NEW observed \in Observations, ~LosesCapture(observed), selection # NoSelection
  PROVE  Rebound(Merged(observed).sources) = selection
<1>1. selection.source \in Offered(Merged(observed).sources)
  BY DEF LosesCapture
<1>2. Merged(observed).sources \in Seq(Sources) /\ selection \in Selections \cup {NoSelection}
  BY CatalogType DEF TypeOK
<1>3. QED
  BY <1>1, <1>2, ReboundType

LEMMA CapturingStep ==
  ASSUME TypeOK, Capturing, [Next]_vars
  PROVE  Capturing'
<1> SUFFICES ASSUME capture'.running
             PROVE  /\ mode' = "host" /\ stage' # "stopped"
                    /\ capture'.selection = selection' /\ selection' # NoSelection
  BY DEF Capturing
<1>0. ~NoCapture.running
  BY DEF NoCapture
<1>1. ASSUME capture.running
      PROVE  /\ mode = "host" /\ stage # "stopped"
             /\ capture.selection = selection /\ selection # NoSelection
  BY <1>1 DEF Capturing
<1>2. ASSUME capture.running, capture'.selection = capture.selection, selection' = selection,
             mode' = mode, stage' = stage \/ stage' \in {"live", "negotiating"}
      PROVE  /\ mode' = "host" /\ stage' # "stopped"
             /\ capture'.selection = selection' /\ selection' # NoSelection
  BY <1>1, <1>2
<1>3. ASSUME NEW command \in Commands, Command(command)
      PROVE  capture' = capture /\ selection' = selection /\ mode' = mode /\ stage' = stage
  BY <1>3 DEF Command, stageVars, captureVars
<1>4. ASSUME Write \/ Configuration \/ Transport \/ Connect \/ Poll \/ Drain \/ Send
      PROVE  capture' = capture /\ selection' = selection /\ mode' = mode /\ stage' = stage
  BY <1>4 DEF Write, Configuration, Transport, Connect, Poll, Drain, Send, stageVars, captureVars
<1>5. CASE Sync
  <2>1. PICK observed \in Observations :
          /\ selection' = Rebound(Merged(observed).sources)
          /\ capture' = IF LosesCapture(observed) THEN NoCapture ELSE capture
    BY <1>5 DEF Sync
  <2>2. ~LosesCapture(observed) /\ capture' = capture
    BY <1>0, <2>1
  <2>3. selection' = selection
    BY <1>1, <2>1, <2>2, SparedCapture
  <2>4. QED
    BY <1>1, <1>5, <2>2, <2>3 DEF Sync, stageVars
<1>6. CASE Default
  <2>1. selection' = selection
    BY <1>1, <1>6 DEF Default
  <2>2. QED
    BY <1>1, <1>6, <2>1 DEF Default, stageVars
<1>7. CASE Select
  <2>1. capture' = capture /\ selection' = selection
    BY <1>0, <1>7 DEF Select
  <2>2. QED
    BY <1>1, <1>7, <2>1 DEF Select, stageVars
<1>8. CASE StartCapture
  <2>1. UNCHANGED <<selection, mode, stage>>
    BY <1>8 DEF StartCapture, stageVars
  <2>2. CASE CanStart
    <3>1. capture'.selection = selection
      BY <1>8, <2>2 DEF StartCapture, TypeOK, CaptureStates
    <3>2. QED
      BY <2>1, <2>2, <3>1 DEF CanStart, MayPublish
  <2>3. CASE ~CanStart
    <3>1. capture' = capture
      BY <1>8, <2>3 DEF StartCapture
    <3>2. QED
      BY <1>1, <2>1, <3>1
  <2>4. QED
    BY <2>2, <2>3
<1>9. ASSUME PollCapture \/ Frame
      PROVE  capture'.running = capture.running /\ capture'.selection = capture.selection
             /\ UNCHANGED <<selection, mode, stage>>
  BY <1>9 DEF PollCapture, Frame, stageVars, TypeOK, CaptureStates
<1>10. ~Halt /\ ~WorkerEnds
  BY DEF Halt, WorkerEnds, TypeOK, CaptureStates
<1>11. ~Disconnect /\ ~Stop /\ ~Reset /\ ~Restart
  BY <1>0 DEF Disconnect, Stop, Disconnected, Reset, Restart
<1>12. \A step, m, s, l : ~Replace(step, m, s, l)
  BY <1>0 DEF Replace
<1>13. ASSUME HandleWaiting \/ HandlePeer \/ HandleOffer \/ HandleAnswer \/ HandleCandidate
       PROVE  capture' = capture /\ selection' = selection /\ mode' = mode
              /\ (stage' = stage \/ stage' = "negotiating")
  BY <1>13 DEF HandleWaiting, HandlePeer, HandleOffer, HandleAnswer, HandleCandidate, Refused,
     NextEvent, captureVars
<1>14. ASSUME Offer
       PROVE  capture' = capture /\ selection' = selection /\ mode' = mode
              /\ (stage' = stage \/ stage' = "negotiating")
  BY <1>14 DEF Offer, captureVars
<1>15. ASSUME UpdateStage
       PROVE  capture' = capture /\ selection' = selection /\ mode' = mode
              /\ (stage' = stage \/ stage' \in {"live", "negotiating"})
  BY <1>15 DEF UpdateStage, captureVars
<1>16. ASSUME Callback \/ Server \/ UNCHANGED vars
       PROVE  capture' = capture /\ selection' = selection /\ mode' = mode /\ stage' = stage
  BY <1>16 DEF Callback, Server, vars, stageVars, captureVars
<1>17. QED
  BY <1>2, <1>3, <1>4, <1>5, <1>6, <1>7, <1>8, <1>9, <1>10, <1>11, <1>12, <1>13, <1>14, <1>15, <1>16
     DEF Next, Session

\* A transport keeps its id and role.
LEMMA SameTransport ==
  ASSUME TypeOK, [Next]_vars
  PROVE  \/ webrtc'.id = webrtc.id /\ webrtc'.role = webrtc.role
         \/ Transport \/ capture' = NoCapture
<1> USE DEF TypeOK, Transports
<1>1. ASSUME NEW command \in Commands, Command(command)
      PROVE  webrtc' = webrtc
  BY <1>1 DEF Command, peerVars
<1>2. ASSUME \/ Write \/ Configuration \/ Sync \/ Default \/ Select
             \/ PollCapture \/ StartCapture \/ Halt
      PROVE  webrtc' = webrtc
  BY <1>2 DEF Write, Configuration, Sync, Default, Select, PollCapture, StartCapture, Halt, peerVars
<1>3. ASSUME Disconnect \/ Stop \/ Reset \/ Restart
      PROVE  capture' = NoCapture
  BY <1>3 DEF Disconnect, Stop, Disconnected, Reset, Restart
<1>4. ASSUME NEW step, NEW m, NEW s, NEW l, Replace(step, m, s, l)
      PROVE  capture' = NoCapture
  BY <1>4 DEF Replace
<1>5. ASSUME Connect \/ Poll \/ Send \/ UpdateStage
      PROVE  webrtc' = webrtc
  BY <1>5 DEF Connect, Poll, Send, UpdateStage, peerVars
<1>6. CASE HandleWaiting \/ HandlePeer \/ HandleOffer \/ HandleAnswer \/ HandleCandidate
  BY <1>6 DEF HandleWaiting, HandlePeer, HandleOffer, HandleAnswer, HandleCandidate, Refused,
     WithRemoteOffer, WithRemoteAnswer
<1>7. CASE Offer \/ Drain
  BY <1>7 DEF Offer, Drain, WithLocalOffer, Drained
<1>8. CASE Callback
  BY <1>8 DEF Callback, Gathered, WithState
<1>9. ASSUME Frame \/ WorkerEnds \/ Server \/ UNCHANGED vars
      PROVE  webrtc' = webrtc
  BY <1>9 DEF Frame, WorkerEnds, Server, vars, peerVars
<1>10. QED
  BY <1>1, <1>2, <1>3, <1>4, <1>5, <1>6, <1>7, <1>8, <1>9 DEF Next, Session

\* How the capture runtime changes.
LEMMA CaptureSteps ==
  ASSUME TypeOK, [Next]_vars, ~StartCapture
  PROVE  \/ capture' = NoCapture
         \/ capture'.transport = capture.transport /\ (capture'.running => capture.running)
<1>1. ASSUME NEW command \in Commands, Command(command)
      PROVE  capture' = capture
  BY <1>1 DEF Command, captureVars
<1>2. ASSUME Write \/ Configuration \/ Default \/ Transport \/ Connect \/ Poll
      PROVE  capture' = capture
  BY <1>2 DEF Write, Configuration, Default, Transport, Connect, Poll, captureVars
<1>3. ASSUME Offer \/ Drain \/ Send \/ UpdateStage
      PROVE  capture' = capture
  BY <1>3 DEF Offer, Drain, Send, UpdateStage, captureVars
<1>4. ASSUME Sync \/ Select
      PROVE  capture' \in {capture, NoCapture}
  BY <1>4 DEF Sync, Select
<1>5. CASE PollCapture \/ Halt \/ Frame \/ WorkerEnds
  BY <1>5 DEF PollCapture, Halt, Frame, WorkerEnds, TypeOK, CaptureStates
<1>6. ASSUME Disconnect \/ Stop \/ Reset \/ Restart
      PROVE  capture' = NoCapture
  BY <1>6 DEF Disconnect, Stop, Disconnected, Reset, Restart
<1>7. ASSUME NEW step, NEW m, NEW s, NEW l, Replace(step, m, s, l)
      PROVE  capture' = NoCapture
  BY <1>7 DEF Replace
<1>8. ASSUME HandleWaiting \/ HandlePeer \/ HandleOffer \/ HandleAnswer \/ HandleCandidate
      PROVE  capture' = capture
  BY <1>8 DEF HandleWaiting, HandlePeer, HandleOffer, HandleAnswer, HandleCandidate, NextEvent, captureVars
<1>9. ASSUME Callback \/ Server \/ UNCHANGED vars
      PROVE  capture' = capture
  BY <1>9 DEF Callback, Server, vars, captureVars
<1>10. QED
  BY <1>1, <1>2, <1>3, <1>4, <1>5, <1>6, <1>7, <1>8, <1>9 DEF Next, Session

LEMMA AttachedStep ==
  ASSUME TypeOK, InOrder(todo), Prepared, Closing, CaptureUsesCurrentTransport, [Next]_vars
  PROVE  CaptureUsesCurrentTransport'
<1>0. NoCapture.transport = 0
  BY DEF NoCapture
<1>1. CASE StartCapture
  <2>1. At("start") /\ webrtc' = webrtc
    BY <1>1 DEF StartCapture, peerVars
  <2>2. CASE ~CanStart
    BY <1>1, <2>1, <2>2 DEF StartCapture, CaptureUsesCurrentTransport
  <2>3. CASE CanStart
    <3>1. \A k \in DOMAIN todo : todo[k] \notin Renewals \cup {"reset"}
      BY <2>1, HeadsInOrder DEF At
    <3>2. webrtc.signaling # "closed"
      BY <2>3, <3>1 DEF CanStart, MayPublish, Closing, EndsAhead
    <3>3. capture'.transport = IF capture.transport = 0 THEN webrtc.id ELSE capture.transport
      BY <1>1, <2>3 DEF StartCapture, TypeOK, CaptureStates
    <3>4. webrtc.role = "host"
      BY <2>3 DEF CanStart, CanPublish, CaptureUsesCurrentTransport
    <3>5. webrtc.id = capture'.transport
      BY <3>3 DEF CaptureUsesCurrentTransport
    <3>6. QED
      BY <2>1, <3>2, <3>4, <3>5 DEF CaptureUsesCurrentTransport
  <2>4. QED
    BY <2>2, <2>3
<1>2. CASE capture' = NoCapture
  BY <1>0, <1>2 DEF CaptureUsesCurrentTransport
<1>3. CASE Transport
  <2>1. capture' = NoCapture
    <3>1. todo # <<>> /\ Head(todo) \in Links /\ todo \in Seq(Steps) /\ capture' = capture
      BY <1>3 DEF Transport, At, Links, InOrder, captureVars
    <3>2. ~Awaits(todo, Links, Renewals)
      BY <3>1, HeadAwaitsNothing
    <3>3. QED
      BY <3>1, <3>2 DEF Prepared, Fresh
  <2>2. QED
    BY <1>0, <2>1 DEF CaptureUsesCurrentTransport
<1>4. CASE ~StartCapture /\ ~Transport /\ capture' # NoCapture
  <2>1. webrtc'.id = webrtc.id /\ webrtc'.role = webrtc.role
    BY <1>4, SameTransport
  <2>2. capture'.transport = capture.transport /\ (capture'.running => capture.running)
    BY <1>4, CaptureSteps
  <2>3. ~Disconnect /\ ~Stop
    BY <1>4 DEF Disconnect, Stop, Disconnected
  <2>4. webrtc'.signaling = "closed" => webrtc.signaling = "closed"
    BY <2>3, SignalingStep
  <2>5. QED
    BY <2>1, <2>2, <2>4 DEF CaptureUsesCurrentTransport
<1>5. QED
  BY <1>1, <1>2, <1>3, <1>4

\* How the catalog, the selection and the mode change.
LEMMA SelectionSteps ==
  ASSUME [Next]_vars
  PROVE  \/ UNCHANGED <<catalog, selection, mode>>
         \/ Sync \/ Default \/ Select \/ Reset \/ Restart
         \/ /\ UNCHANGED <<catalog, selection>>
            /\ \/ Replace("host", "host", "configured", "live")
               \/ Replace("viewer", "viewer", "awaiting", "live")
               \/ Replace("demo", "host", "mock", "mock")
<1>1. ASSUME NEW command \in Commands, Command(command)
      PROVE  UNCHANGED <<catalog, selection, mode>>
  BY <1>1 DEF Command, captureVars, stageVars
<1>2. ASSUME Write \/ Configuration \/ PollCapture \/ StartCapture \/ Halt
      PROVE  UNCHANGED <<catalog, selection, mode>>
  BY <1>2 DEF Write, Configuration, PollCapture, StartCapture, Halt, captureVars, stageVars
<1>3. ASSUME Disconnect \/ Stop \/ Transport \/ Connect \/ Poll
      PROVE  UNCHANGED <<catalog, selection, mode>>
  BY <1>3 DEF Disconnect, Stop, Transport, Connect, Poll, captureVars, stageVars
<1>4. ASSUME NEW step, NEW m, NEW s, NEW l, Replace(step, m, s, l)
      PROVE  UNCHANGED <<catalog, selection>>
  BY <1>4 DEF Replace
<1>5. ASSUME HandleWaiting \/ HandlePeer \/ HandleOffer \/ HandleAnswer \/ HandleCandidate
      PROVE  UNCHANGED <<catalog, selection, mode>>
  BY <1>5 DEF HandleWaiting, HandlePeer, HandleOffer, HandleAnswer, HandleCandidate, NextEvent, captureVars
<1>6. ASSUME Offer \/ Drain \/ Send \/ UpdateStage
      PROVE  UNCHANGED <<catalog, selection, mode>>
  BY <1>6 DEF Offer, Drain, Send, UpdateStage, captureVars, stageVars
<1>7. ASSUME Frame \/ WorkerEnds \/ Callback \/ Server \/ UNCHANGED vars
      PROVE  UNCHANGED <<catalog, selection, mode>>
  BY <1>7 DEF Frame, WorkerEnds, Callback, Server, vars, captureVars, stageVars
<1>8. QED
  BY <1>1, <1>2, <1>3, <1>4, <1>5, <1>6, <1>7 DEF Next, Session

\* After a look at the catalog the selection is valid, and what a host needs.
LEMMA AfterSync ==
  ASSUME TypeOK, Sync
  PROVE  Valid' /\ mode' = mode /\ (mode = "host" => Suitable')
<1>1. PICK observed \in Observations :
        /\ catalog' = Merged(observed) /\ selection' = Rebound(Merged(observed).sources)
  BY DEF Sync
<1>2. Merged(observed).sources \in Seq(Sources) /\ selection \in Selections \cup {NoSelection}
  BY CatalogType DEF TypeOK
<1>3. mode' = mode
  BY DEF Sync, stageVars
<1>4. Valid'
  BY <1>1, <1>2, ReboundType DEF Valid
<1>5. QED
  BY <1>1, <1>2, <1>3, <1>4, ReboundType DEF Valid, Suitable

\* A default makes a valid selection suit a host.
LEMMA AfterDefault ==
  ASSUME TypeOK, Default
  PROVE  /\ Valid => Valid' /\ Suitable'
         /\ Suitable => Suitable'
         /\ mode' = mode
<1>1. catalog.sources \in Seq(Sources) /\ TRUE \in BOOLEAN
  BY DEF TypeOK, Catalogs
<1>2. IF First(catalog.sources, TRUE) = NoSelection
        THEN catalog.sources = <<>>
        ELSE First(catalog.sources, TRUE).source \in Offered(catalog.sources)
  BY <1>1, FirstType
<1>3. catalog' = catalog /\ mode' = mode
  BY DEF Default, stageVars
<1>4. selection' = IF selection = NoSelection THEN First(catalog.sources, TRUE) ELSE selection
  BY DEF Default
<1>5. CASE selection = NoSelection
  BY <1>2, <1>3, <1>4, <1>5 DEF Valid, Suitable
<1>6. CASE selection # NoSelection
  BY <1>3, <1>4, <1>6 DEF Valid, Suitable
<1>7. QED
  BY <1>3, <1>5, <1>6

\* What the user selects is offered.
LEMMA AfterSelect ==
  ASSUME TypeOK, Select
  PROVE  /\ mode' = mode
         /\ \/ UNCHANGED <<catalog, selection>>
            \/ Valid' /\ Suitable'
<1>1. catalog' = catalog /\ mode' = mode
  BY DEF Select, stageVars
<1>2. PICK source \in Sources, audio \in BOOLEAN :
        \/ selection' = selection
        \/ /\ source \in Offered(catalog.sources)
           /\ selection' = [source |-> source, audio |-> audio /\ source \in HasAudio]
  BY DEF Select
<1>3. CASE selection' = selection
  BY <1>1, <1>3
<1>4. CASE /\ source \in Offered(catalog.sources)
           /\ selection' = [source |-> source, audio |-> audio /\ source \in HasAudio]
  <2>1. selection'.source = source /\ selection' # NoSelection
    BY <1>4 DEF NoSelection
  <2>2. QED
    BY <1>1, <1>4, <2>1 DEF Valid, Suitable
<1>5. QED
  BY <1>2, <1>3, <1>4

LEMMA SyncedStep ==
  ASSUME TypeOK, InOrder(todo), Synced, [Next]_vars
  PROVE  Synced'
<1>1. \A command \in Commands : Awaits(Script(command), {"default"}, {"sync"})
  BY ScriptInOrder DEF Complete, TypeOK
<1>2. CASE Sync
  BY <1>2, AfterSync DEF Synced
<1>3. CASE Restart
  <2>1. Awaits(<<>>, {"default"}, {"sync"})
    BY DEF Awaits
  <2>2. QED
    BY <1>3, <2>1 DEF Restart, Synced
<1>4. CASE Awaits(todo, {"default"}, {"sync"})
  <2>1. CASE Awaits(todo', {"default"}, {"sync"})
    BY <2>1 DEF Synced
  <2>2. CASE ~Awaits(todo', {"default"}, {"sync"})
    <3>1. /\ todo # <<>> /\ Head(todo) = "sync"
          /\ todo' # todo /\ ~Restart /\ \A step \in Additions : todo' # <<step>> \o todo
      BY <1>1, <1>4, <2>2, AwaitsStep DEF Additions
    <3>2. Sync
      BY <3>1, HeadSteps DEF Milestones
    <3>3. QED
      BY <1>2, <3>2
  <2>3. QED
    BY <2>1, <2>2
<1>5. CASE Valid
  <2>1. ASSUME UNCHANGED <<catalog, selection>>
        PROVE  Valid'
    BY <1>5, <2>1 DEF Valid
  <2>2. CASE Default
    BY <1>5, <2>2, AfterDefault DEF Synced
  <2>3. CASE Select
    BY <2>1, <2>3, AfterSelect DEF Synced
  <2>4. CASE Reset
    <3>1. todo # <<>> /\ Head(todo) \in {"select", "reset"} /\ todo' = Tail(todo)
      BY <2>4 DEF Reset, At, Done
    <3>2. Awaits(Tail(todo), {"default"}, {"sync"})
      BY <3>1, HeadsInOrder
    <3>3. QED
      BY <3>1, <3>2 DEF Synced
  <2>5. QED
    BY <1>2, <1>3, <2>1, <2>2, <2>3, <2>4, SelectionSteps DEF Synced
<1>6. QED
  BY <1>4, <1>5 DEF Synced

LEMMA DefaultedStep ==
  ASSUME TypeOK, InOrder(todo), Synced, Defaulted, [Next]_vars
  PROVE  Defaulted'
<1>0. todo \in Seq(Steps)
  BY DEF InOrder
<1>1. \A command \in Commands : Awaits(Script(command), Beginnings, {"default"})
  BY ScriptInOrder DEF Complete, TypeOK
<1>2. CASE Default
  <2>1. todo # <<>> /\ Head(todo) = "default"
    BY <1>2 DEF Default, At
  <2>2. ~Awaits(todo, {"default"}, {"sync"})
    BY <1>0, <2>1, HeadAwaitsNothing
  <2>3. QED
    BY <1>2, <2>2, AfterDefault DEF Synced, Defaulted
<1>3. CASE Restart
  <2>1. Awaits(<<>>, Beginnings, {"default"})
    BY DEF Awaits
  <2>2. QED
    BY <1>3, <2>1 DEF Restart, Defaulted
<1>4. CASE Awaits(todo, Beginnings, {"default"})
  <2>1. CASE Awaits(todo', Beginnings, {"default"})
    BY <2>1 DEF Defaulted
  <2>2. CASE ~Awaits(todo', Beginnings, {"default"})
    <3>1. /\ todo # <<>> /\ Head(todo) = "default"
          /\ todo' # todo /\ ~Restart /\ \A step \in Additions : todo' # <<step>> \o todo
      BY <1>1, <1>4, <2>2, AwaitsStep DEF Additions, Beginnings
    <3>2. Default
      BY <3>1, HeadSteps DEF Milestones
    <3>3. QED
      BY <1>2, <3>2
  <2>3. QED
    BY <2>1, <2>2
<1>5. CASE Suitable
  <2>1. ASSUME UNCHANGED <<catalog, selection>>
        PROVE  Suitable'
    BY <1>5, <2>1 DEF Suitable
  <2>2. CASE Sync
    <3>1. todo # <<>> /\ Head(todo) = "sync" /\ Tail(todo) \in Seq(Steps)
      BY <1>0, <2>2 DEF Sync, At
    <3>2. Awaits(Tail(todo), Beginnings, {"default"})
      BY <3>1, HeadsInOrder
    <3>3. Awaits(<<"write">> \o Tail(todo), Beginnings, {"default"})
      BY <3>1, <3>2, AwaitsAddition DEF Beginnings, Steps
    <3>4. todo' = Tail(todo) \/ todo' = <<"write">> \o Tail(todo)
      BY <2>2 DEF Sync, Save, Done
    <3>5. QED
      BY <3>2, <3>3, <3>4 DEF Defaulted
  <2>3. CASE Select
    BY <2>1, <2>3, AfterSelect DEF Defaulted
  <2>4. CASE Reset
    <3>1. todo # <<>> /\ Head(todo) \in {"select", "reset"} /\ todo' = Tail(todo)
      BY <2>4 DEF Reset, At, Done
    <3>2. Awaits(Tail(todo), Beginnings, {"default"})
      BY <3>1, HeadsInOrder
    <3>3. QED
      BY <3>1, <3>2 DEF Defaulted
  <2>5. QED
    BY <1>2, <1>3, <2>1, <2>2, <2>3, <2>4, SelectionSteps DEF Defaulted
<1>6. QED
  BY <1>4, <1>5 DEF Defaulted

LEMMA OfferedStep ==
  ASSUME TypeOK, InOrder(todo), Defaulted, HostSelectionIsOffered, [Next]_vars
  PROVE  HostSelectionIsOffered'
<1>1. HostSelectionIsOffered <=> (mode = "host" => Suitable)
  BY DEF HostSelectionIsOffered, Suitable
<1>2. (HostSelectionIsOffered <=> (mode = "host" => Suitable))'
  BY DEF HostSelectionIsOffered, Suitable
<1>3. ASSUME UNCHANGED <<catalog, selection>>, Suitable
      PROVE  Suitable'
  BY <1>3 DEF Suitable
<1>4. CASE Sync
  BY <1>2, <1>4, AfterSync
<1>5. CASE Default
  BY <1>1, <1>2, <1>5, AfterDefault
<1>6. CASE Select
  BY <1>1, <1>2, <1>3, <1>6, AfterSelect
<1>7. CASE Reset \/ Restart
  BY <1>2, <1>7 DEF Reset, Restart
<1>8. ASSUME UNCHANGED <<catalog, selection>>, NEW step \in Beginnings, NEW m, NEW s, NEW l,
             Replace(step, m, s, l)
      PROVE  Suitable'
  <2>1. todo # <<>> /\ Head(todo) \in Beginnings /\ todo \in Seq(Steps)
    BY <1>8 DEF Replace, At, InOrder
  <2>2. ~Awaits(todo, Beginnings, {"default"})
    BY <2>1, HeadAwaitsNothing
  <2>3. QED
    BY <1>3, <1>8, <2>2 DEF Defaulted
<1>9. ASSUME Replace("viewer", "viewer", "awaiting", "live")
      PROVE  mode' # "host"
  BY <1>9 DEF Replace
<1>10. ASSUME UNCHANGED <<catalog, selection, mode>>
       PROVE  HostSelectionIsOffered'
  BY <1>1, <1>2, <1>3, <1>10
<1>11. "host" \in Beginnings /\ "demo" \in Beginnings
  BY DEF Beginnings
<1>12. QED
  BY <1>2, <1>4, <1>5, <1>6, <1>7, <1>8, <1>9, <1>10, <1>11, SelectionSteps

\* What a stopped session needs to go on.
LEMMA SilentStep ==
  ASSUME TypeOK, InOrder(todo), Prepared, Silent, [Next]_vars
  PROVE  Silent'
<1> SUFFICES ASSUME stage' = "stopped"
             PROVE  client' = NoClient /\ ~up' /\ events' = <<>>
  BY DEF Silent
<1>1. CASE Stop
  BY <1>1 DEF Stop, Disconnected, At
<1>2. CASE ~Stop
  <2>1. stage = "stopped"
    BY <1>2, StoppedStep
  <2>2. client = NoClient /\ ~up /\ events = <<>> /\ NoClient.ended = "none"
    BY <2>1 DEF Silent, NoClient
  <2>3. ~Connect
    BY <2>1, HeadAwaitsNothing DEF Connect, At, Prepared, Fresh, Links, InOrder
  <2>4. ASSUME NEW command \in Commands, Command(command)
        PROVE  UNCHANGED <<client, events, up>>
    BY <2>4 DEF Command, peerVars
  <2>5. ASSUME \/ Write \/ Configuration \/ Sync \/ Default \/ Select
               \/ PollCapture \/ StartCapture \/ Halt
        PROVE  UNCHANGED <<client, events, up>>
    BY <2>5 DEF Write, Configuration, Sync, Default, Select, PollCapture, StartCapture, Halt, peerVars
  <2>6. ASSUME NEW step, NEW m, NEW s, NEW l, Replace(step, m, s, l)
        PROVE  client' = NoClient /\ ~up' /\ events' = events
    BY <2>6 DEF Replace
  <2>7. ASSUME Reset \/ Restart \/ Disconnect
        PROVE  client' = NoClient /\ ~up' /\ events' \in {events, <<>>}
    BY <2>7 DEF Reset, Restart, Disconnect, Disconnected
  <2>8. ASSUME Poll \/ Transport \/ Send
        PROVE  client' = NoClient /\ ~up' /\ events' = events
    BY <2>2, <2>8 DEF Poll, Transport, Send, Connected, Unsent
  <2>9. ~HandleWaiting /\ ~HandlePeer /\ ~HandleOffer /\ ~HandleAnswer /\ ~HandleCandidate
    BY <2>2 DEF HandleWaiting, HandlePeer, HandleOffer, HandleAnswer, HandleCandidate, NextEvent
  <2>10. ASSUME Offer \/ Drain \/ UpdateStage
         PROVE  UNCHANGED <<client, events, up>>
    BY <2>10 DEF Offer, Drain, UpdateStage, peerVars
  <2>11. ~Server
    BY <2>2 DEF Server, CanArrive
  <2>12. ASSUME Frame \/ WorkerEnds \/ Callback \/ UNCHANGED vars
         PROVE  UNCHANGED <<client, events, up>>
    BY <2>12 DEF Frame, WorkerEnds, Callback, vars, taskVars, peerVars
  <2>13. QED
    BY <1>2, <2>2, <2>3, <2>4, <2>5, <2>6, <2>7, <2>8, <2>9, <2>10, <2>11, <2>12 DEF Next, Session
<1>3. QED
  BY <1>1, <1>2

\* Whatever a stopped session receives, it is replaced before it does anything else.
LEMMA StaysStoppedStep ==
  ASSUME TypeOK, Silent, [Next]_vars, stage = "stopped", stage' # "stopped"
  PROVE  webrtc' = NoTransport /\ sent' = {}
<1>1. client = NoClient /\ ~up /\ events = <<>>
  BY DEF Silent
<1>2. ASSUME NEW command \in Commands, Command(command)
      PROVE  FALSE
  BY <1>2 DEF Command, stageVars
<1>3. ~(\/ Write \/ Configuration \/ Sync \/ Default \/ Select
        \/ PollCapture \/ StartCapture \/ Halt)
  BY DEF Write, Configuration, Sync, Default, Select, PollCapture, StartCapture, Halt, stageVars
<1>4. ~Disconnect /\ ~Stop /\ ~Transport /\ ~Connect /\ ~Poll /\ ~Drain /\ ~Send
  BY DEF Disconnect, Stop, Transport, Connect, Poll, Drain, Send, stageVars
<1>5. ASSUME NEW step, NEW m, NEW s, NEW l, Replace(step, m, s, l)
      PROVE  webrtc' = NoTransport /\ sent' = {}
  BY <1>5 DEF Replace
<1>6. ASSUME Reset \/ Restart
      PROVE  webrtc' = NoTransport /\ sent' = {}
  BY <1>6 DEF Reset, Restart
<1>7. ~HandleWaiting /\ ~HandlePeer /\ ~HandleOffer /\ ~HandleAnswer /\ ~HandleCandidate
  BY <1>1 DEF HandleWaiting, HandlePeer, HandleOffer, HandleAnswer, HandleCandidate, NextEvent
<1>8. ~Offer /\ ~UpdateStage
  BY <1>1 DEF Offer, NeedsOffer, UpdateStage
<1>9. ~(Frame \/ WorkerEnds \/ Callback \/ Server \/ UNCHANGED vars)
  BY DEF Frame, WorkerEnds, Callback, Server, vars, stageVars
<1>10. QED
  BY <1>2, <1>3, <1>4, <1>5, <1>6, <1>7, <1>8, <1>9 DEF Next, Session

\* How the preferences change.
LEMMA FileSteps ==
  ASSUME TypeOK, [Next]_vars
  PROVE  \/ UNCHANGED <<file, optedIn>>
         \/ \E kept : file' = kept /\ optedIn' = IF kept.audio THEN optedIn \cup {kept} ELSE optedIn
         \/ file' \in {file} \cup Torn(file) /\ optedIn' = optedIn
<1> USE DEF fileVars
<1>1. ASSUME NEW command \in Commands, Command(command)
      PROVE  UNCHANGED <<file, optedIn>>
  BY <1>1 DEF Command
<1>2. CASE Write
  BY <1>2 DEF Write
<1>3. ASSUME NEW kept, NEW rest, Save(kept, rest)
      PROVE  \/ UNCHANGED <<file, optedIn>>
             \/ file' = kept /\ optedIn' = IF kept.audio THEN optedIn \cup {kept} ELSE optedIn
  BY <1>3 DEF Save
<1>4. CASE Configuration \/ Sync \/ Select
  BY <1>3, <1>4 DEF Configuration, Sync, Select
<1>5. ASSUME Default \/ PollCapture \/ StartCapture \/ Halt
      PROVE  UNCHANGED <<file, optedIn>>
  BY <1>5 DEF Default, PollCapture, StartCapture, Halt
<1>6. ASSUME Disconnect \/ Stop \/ Reset \/ Transport \/ Connect \/ Poll
      PROVE  UNCHANGED <<file, optedIn>>
  BY <1>6 DEF Disconnect, Stop, Reset, Transport, Connect, Poll
<1>7. ASSUME NEW step, NEW m, NEW s, NEW l, Replace(step, m, s, l)
      PROVE  UNCHANGED <<file, optedIn>>
  BY <1>7 DEF Replace
<1>8. ASSUME HandleWaiting \/ HandlePeer \/ HandleOffer \/ HandleAnswer \/ HandleCandidate
      PROVE  UNCHANGED <<file, optedIn>>
  BY <1>8 DEF HandleWaiting, HandlePeer, HandleOffer, HandleAnswer, HandleCandidate, NextEvent
<1>9. ASSUME Offer \/ Drain \/ Send \/ UpdateStage
      PROVE  UNCHANGED <<file, optedIn>>
  BY <1>9 DEF Offer, Drain, Send, UpdateStage
<1>10. CASE Restart
  BY <1>10 DEF Restart
<1>11. ASSUME Frame \/ WorkerEnds \/ Callback \/ Server \/ UNCHANGED vars
       PROVE  UNCHANGED <<file, optedIn>>
  BY <1>11 DEF Frame, WorkerEnds, Callback, Server, vars
<1>12. QED
  BY <1>1, <1>2, <1>4, <1>5, <1>6, <1>7, <1>8, <1>9, <1>10, <1>11 DEF Next, Session

LEMMA SavedStep ==
  ASSUME TypeOK, RestoredAudioWasSaved, [Next]_vars
  PROVE  RestoredAudioWasSaved'
<1>1. CASE UNCHANGED <<file, optedIn>>
  BY <1>1 DEF RestoredAudioWasSaved
<1>2. ASSUME NEW kept, file' = kept, optedIn' = IF kept.audio THEN optedIn \cup {kept} ELSE optedIn
      PROVE  RestoredAudioWasSaved'
  BY <1>2 DEF RestoredAudioWasSaved
<1>3. CASE file' \in {file} \cup Torn(file) /\ optedIn' = optedIn
  <2>1. file'.audio => file' = file
    BY <1>3, TornType DEF TypeOK
  <2>2. QED
    BY <1>3, <2>1 DEF RestoredAudioWasSaved
<1>4. QED
  BY <1>1, <1>2, <1>3, FileSteps

\* A host's selection gets audio from the user, or from a catalog that was empty.
LEMMA AudioOffStep ==
  ASSUME TypeOK, HostSelectionIsOffered, [Next]_vars, mode = "host", mode' = "host",
         ~selection.audio, selection'.audio
  PROVE  At("select") \/ (At("sync") /\ catalog.sources = <<>>)
<1>0. selection = NoSelection => catalog.sources = <<>>
  BY DEF HostSelectionIsOffered
<1>1. CASE Sync
  <2>1. PICK observed \in Observations : selection' = Rebound(Merged(observed).sources)
    BY <1>1 DEF Sync
  <2>2. selection # NoSelection => ~selection'.audio
    BY <2>1, CatalogType, ReboundType DEF TypeOK
  <2>3. QED
    BY <1>0, <1>1, <2>2 DEF Sync
<1>2. ~Default
  BY <1>0 DEF Default, First, NoSelection
<1>3. CASE Select
  BY <1>3 DEF Select
<1>4. ~Reset /\ ~Restart
  BY DEF Reset, Restart
<1>5. QED
  BY <1>1, <1>2, <1>3, <1>4, SelectionSteps

-----------------------------------------------------------------------------
(***************************************************************************)
(* Negotiation.                                                             *)
(***************************************************************************)

\* Nothing was said yet for the session, or its state is replaced before its links.
Blank ==
  /\ events = <<>> /\ link = "live"
  /\ webrtc.local = "none" /\ webrtc.gathered = 0 /\ webrtc.drained = 0
Unspoken == Blank \/ Awaits(todo, Links, Renewals)

\* The signals about to be sent.
Pending == {outbox[i] : i \in DOMAIN outbox}

\* While signaling is connected, what the transport has said is sent or about to be.
Told     == up => Owed \subseteq sent \cup Pending
Linked   == up => Connected(client)
Lively   == webrtc.id # 0 => mode # "idle" /\ link = "live"
Numbered == webrtc.id = 0 => webrtc = NoTransport

\* An open offer, and an offer that was answered, leave a local description.
Answered ==
  /\ webrtc.signaling = "have-local-offer" => webrtc.local # "none"
  /\ webrtc.remote = "answer" => webrtc.local # "none" /\ webrtc.signaling # "have-local-offer"

LEMMA UsedList ==
  ASSUME InOrder(todo), todo # <<>>, Head(todo) \in Uses \cup {"reset"},
         todo' = Tail(todo) \/ todo' = <<"drain">> \o Tail(todo)
  PROVE  Awaits(todo', Links, Renewals)
<1>1. Awaits(Tail(todo), Links, Renewals) /\ Tail(todo) \in Seq(Steps)
  BY HeadsInOrder DEF InOrder
<1>2. Awaits(<<"drain">> \o Tail(todo), Links, Renewals)
  BY <1>1, AwaitsAddition DEF Links, Steps
<1>3. QED
  BY <1>1, <1>2

LEMMA UnspokenStep ==
  ASSUME TypeOK, InOrder(todo), Unspoken, [Next]_vars
  PROVE  Unspoken'
<1>0. /\ NoTransport.local = "none" /\ NoTransport.gathered = 0 /\ NoTransport.drained = 0
      /\ mode \in {"idle", "host", "viewer"}
  BY DEF NoTransport, NewTransport, TypeOK
<1>1. \A command \in Commands : Awaits(Script(command), Links, Renewals)
  BY <1>0, ScriptInOrder DEF Complete
<1>2. ASSUME Awaits(todo, Links, Renewals)
      PROVE  Unspoken'
  <2>1. CASE Awaits(todo', Links, Renewals)
    BY <2>1 DEF Unspoken
  <2>2. CASE ~Awaits(todo', Links, Renewals)
    <3>1. /\ todo # <<>> /\ Head(todo) \in Renewals
          /\ todo' # todo /\ ~Restart /\ \A step \in Additions : todo' # <<step>> \o todo
      BY <1>1, <1>2, <2>2, AwaitsStep DEF Links, Additions
    <3>2. \/ Replace("host", "host", "configured", "live")
          \/ Replace("viewer", "viewer", "awaiting", "live")
      BY <3>1, HeadSteps DEF Renewals, Milestones
    <3>3. Blank'
      BY <1>0, <3>2 DEF Replace, Blank, At
    <3>4. QED
      BY <3>3 DEF Unspoken
  <2>3. QED
    BY <2>1, <2>2
<1>3. ASSUME Poll \/ Offer \/ Reset \/ Replace("demo", "host", "mock", "mock")
      PROVE  Unspoken'
  <2>1. /\ todo # <<>> /\ Head(todo) \in Uses \cup {"reset"}
        /\ todo' = Tail(todo) \/ todo' = <<"drain">> \o Tail(todo)
    BY <1>3 DEF Poll, Offer, Reset, Replace, At, Done, Uses
  <2>2. QED
    BY <2>1, UsedList DEF Unspoken
<1>4. ASSUME Restart
      PROVE  Unspoken'
  BY <1>4 DEF Restart, Unspoken, Awaits
<1>5. ASSUME NEW command \in Commands, Command(command)
      PROVE  Unspoken'
  BY <1>1, <1>5 DEF Command, Unspoken
<1>6. ASSUME \/ Replace("host", "host", "configured", "live")
             \/ Replace("viewer", "viewer", "awaiting", "live")
      PROVE  Unspoken'
  BY <1>0, <1>6 DEF Replace, Blank, At, Unspoken
<1>7. ASSUME Blank
      PROVE  Unspoken'
  <2> USE <1>7 DEF Blank, Unspoken
  <2>1. CASE \/ Write \/ Configuration \/ Default \/ Sync \/ Select
             \/ PollCapture \/ StartCapture \/ Halt
    BY <2>1 DEF Write, Configuration, Default, Sync, Select, PollCapture, StartCapture, Halt,
       stageVars, peerVars
  <2>2. CASE Disconnect \/ Stop
    BY <2>2 DEF Disconnect, Stop, Disconnected, Closed, stageVars, TypeOK, Transports
  <2>3. CASE Transport \/ Connect
    BY <2>3 DEF Transport, Connect, NewTransport, stageVars
  <2>4. ~HandleWaiting /\ ~HandlePeer /\ ~HandleOffer /\ ~HandleAnswer /\ ~HandleCandidate
    BY DEF HandleWaiting, HandlePeer, HandleOffer, HandleAnswer, HandleCandidate, NextEvent
  <2>5. CASE Drain
    BY <2>5 DEF Drain, Drained, stageVars, TypeOK, Transports
  <2>6. CASE Send \/ UpdateStage
    BY <2>6 DEF Send, UpdateStage, stageVars, peerVars
  <2>7. CASE Callback
    BY <2>7 DEF Callback, CanGather, WithState, taskVars, stageVars, TypeOK, Transports
  <2>8. CASE Frame \/ WorkerEnds \/ Server \/ UNCHANGED vars
    BY <2>8 DEF Frame, WorkerEnds, Server, vars, taskVars, stageVars, peerVars
  <2>9. QED
    BY <1>3, <1>4, <1>5, <1>6, <2>1, <2>2, <2>3, <2>4, <2>5, <2>6, <2>7, <2>8
       DEF Next, Session
<1>8. QED
  BY <1>2, <1>7 DEF Unspoken

\* How the transport changes.
LEMMA TransportSteps ==
  ASSUME [Next]_vars
  PROVE  \/ webrtc' = webrtc
         \/ webrtc' = NoTransport
         \/ Transport /\ webrtc' = NewTransport(made + 1, mode)
         \/ webrtc # NoTransport /\ webrtc' = Closed(webrtc)
         \/ HandleOffer /\ webrtc # NoTransport /\ webrtc.signaling = "stable"
              /\ webrtc' = WithRemoteOffer(webrtc)
         \/ webrtc # NoTransport /\ webrtc.signaling = "have-local-offer"
              /\ webrtc' = WithRemoteAnswer(webrtc)
         \/ Offer /\ webrtc # NoTransport /\ webrtc.local = "none" /\ webrtc' = WithLocalOffer(webrtc)
         \/ Drain /\ webrtc' = Drained(webrtc)
         \/ webrtc # NoTransport /\ webrtc' = Gathered(webrtc)
         \/ webrtc # NoTransport /\ \E state \in ConnectionStates : webrtc' = WithState(webrtc, state)
<1> USE DEF peerVars
<1>1. ASSUME NEW command \in Commands, Command(command)
      PROVE  webrtc' = webrtc
  BY <1>1 DEF Command
<1>2. ASSUME \/ Write \/ Configuration \/ Sync \/ Default \/ Select
             \/ PollCapture \/ StartCapture \/ Halt
      PROVE  webrtc' = webrtc
  BY <1>2 DEF Write, Configuration, Sync, Default, Select, PollCapture, StartCapture, Halt
<1>3. ASSUME Disconnect \/ Stop
      PROVE  webrtc' = webrtc \/ (webrtc # NoTransport /\ webrtc' = Closed(webrtc))
  BY <1>3 DEF Disconnect, Stop, Disconnected
<1>4. ASSUME NEW step, NEW m, NEW s, NEW l, Replace(step, m, s, l)
      PROVE  webrtc' = NoTransport
  BY <1>4 DEF Replace
<1>5. ASSUME Reset \/ Restart
      PROVE  webrtc' = NoTransport
  BY <1>5 DEF Reset, Restart
<1>6. ASSUME Transport
      PROVE  webrtc' = webrtc \/ webrtc' = NewTransport(made + 1, mode)
  BY <1>6 DEF Transport
<1>7. ASSUME Connect \/ Poll \/ HandleWaiting \/ HandlePeer \/ HandleCandidate \/ Send \/ UpdateStage
      PROVE  webrtc' = webrtc
  BY <1>7 DEF Connect, Poll, HandleWaiting, HandlePeer, HandleCandidate, Refused, Send, UpdateStage
<1>8. ASSUME HandleOffer
      PROVE  \/ webrtc' = webrtc
             \/ webrtc # NoTransport /\ webrtc.signaling = "stable" /\ webrtc' = WithRemoteOffer(webrtc)
  BY <1>8 DEF HandleOffer, Refused, CanAcceptOffer
<1>9. ASSUME HandleAnswer
      PROVE  \/ webrtc' = webrtc
             \/ webrtc # NoTransport /\ webrtc.signaling = "have-local-offer"
                  /\ webrtc' = WithRemoteAnswer(webrtc)
  BY <1>9 DEF HandleAnswer, Refused, CanAcceptAnswer
<1>10. ASSUME Offer
       PROVE  \/ webrtc' = webrtc
              \/ webrtc # NoTransport /\ webrtc.local = "none" /\ webrtc' = WithLocalOffer(webrtc)
  BY <1>10 DEF Offer, NeedsOffer
<1>11. ASSUME Drain
       PROVE  webrtc' = Drained(webrtc)
  BY <1>11 DEF Drain
<1>12. ASSUME Callback
       PROVE  \/ webrtc # NoTransport /\ webrtc' = Gathered(webrtc)
              \/ /\ webrtc # NoTransport
                 /\ \E state \in ConnectionStates : webrtc' = WithState(webrtc, state)
  BY <1>12 DEF Callback
<1>13. ASSUME Frame \/ WorkerEnds \/ Server \/ UNCHANGED vars
       PROVE  webrtc' = webrtc
  BY <1>13 DEF Frame, WorkerEnds, Server, vars
<1>14. QED
  BY <1>1, <1>2, <1>3, <1>4, <1>5, <1>6, <1>7, <1>8, <1>9, <1>10, <1>11, <1>12, <1>13
     DEF Next, Session

LEMMA NumberedStep ==
  ASSUME TypeOK, Numbered, [Next]_vars
  PROVE  Numbered'
<1> USE DEF Numbered, TypeOK, Transports
<1>1. NoTransport.drained = 0 /\ NoTransport.gathered = 0 /\ NoTransport.id = 0
  BY DEF NoTransport, NewTransport
<1>2. CASE webrtc' = webrtc \/ webrtc' = NoTransport
  BY <1>2
<1>3. ASSUME webrtc' = NewTransport(made + 1, mode)
      PROVE  webrtc'.id # 0
  BY <1>3 DEF NewTransport
<1>4. ASSUME webrtc # NoTransport
      PROVE  /\ Closed(webrtc).id # 0 /\ WithRemoteOffer(webrtc).id # 0
             /\ WithRemoteAnswer(webrtc).id # 0 /\ WithLocalOffer(webrtc).id # 0
             /\ Gathered(webrtc).id # 0
             /\ \A state \in ConnectionStates : WithState(webrtc, state).id # 0
  BY <1>4 DEF Closed, WithRemoteOffer, WithRemoteAnswer, WithLocalOffer, Gathered, WithState
<1>5. CASE webrtc' = Drained(webrtc)
  <2>1. CASE webrtc = NoTransport
    BY <1>5, <2>1 DEF Drained, NoTransport, NewTransport
  <2>2. CASE webrtc # NoTransport
    BY <1>5, <2>2 DEF Drained
  <2>3. QED
    BY <2>1, <2>2
<1>6. QED
  BY <1>2, <1>3, <1>4, <1>5, TransportSteps

LEMMA AnsweredStep ==
  ASSUME TypeOK, Answered, [Next]_vars
  PROVE  /\ Answered'
         /\ webrtc.remote = "answer" => webrtc'.signaling # "have-local-offer"
<1> USE DEF Answered, TypeOK, Transports
<1>1. CASE webrtc' = webrtc \/ webrtc' = NoTransport \/ webrtc' = NewTransport(made + 1, mode)
  BY <1>1 DEF NoTransport, NewTransport
<1>2. CASE webrtc' = Closed(webrtc) \/ webrtc' = Drained(webrtc) \/ webrtc' = Gathered(webrtc)
  BY <1>2 DEF Closed, Drained, Gathered
<1>3. CASE webrtc.signaling = "stable" /\ webrtc' = WithRemoteOffer(webrtc)
  BY <1>3 DEF WithRemoteOffer
<1>4. CASE webrtc.signaling = "have-local-offer" /\ webrtc' = WithRemoteAnswer(webrtc)
  BY <1>4 DEF WithRemoteAnswer
<1>5. CASE webrtc.local = "none" /\ webrtc' = WithLocalOffer(webrtc)
  BY <1>5 DEF WithLocalOffer
<1>6. CASE \E state \in ConnectionStates : webrtc' = WithState(webrtc, state)
  BY <1>6 DEF WithState
<1>7. QED
  BY <1>1, <1>2, <1>3, <1>4, <1>5, <1>6, TransportSteps

\* A transport belongs to a session with live signaling.
LEMMA LivelyStep ==
  ASSUME TypeOK, InOrder(todo), Prepared, Unspoken, Lively, [Next]_vars
  PROVE  Lively'
<1>1. NoTransport.id = 0
  BY DEF NoTransport, NewTransport
<1>2. CASE webrtc' = NoTransport
  BY <1>1, <1>2 DEF Lively
<1>3. CASE Transport
  <2>1. mode # "idle" /\ link = "live"
    BY <1>3, HeadAwaitsNothing
       DEF Transport, At, Prepared, Fresh, Unspoken, Blank, Links, InOrder
  <2>2. QED
    BY <1>3, <2>1 DEF Transport, Lively, stageVars
<1>4. CASE webrtc' # NoTransport /\ ~Transport
  <2>1. webrtc'.id = webrtc.id
    <3> USE DEF TypeOK, Transports
    <3>1. CASE webrtc' = webrtc
      BY <3>1
    <3>2. /\ Closed(webrtc).id = webrtc.id /\ WithRemoteOffer(webrtc).id = webrtc.id
          /\ WithRemoteAnswer(webrtc).id = webrtc.id /\ WithLocalOffer(webrtc).id = webrtc.id
          /\ Drained(webrtc).id = webrtc.id /\ Gathered(webrtc).id = webrtc.id
          /\ \A state \in ConnectionStates : WithState(webrtc, state).id = webrtc.id
      BY DEF Closed, WithRemoteOffer, WithRemoteAnswer, WithLocalOffer, Drained, Gathered, WithState
    <3>3. QED
      BY <1>4, <3>1, <3>2, TransportSteps
  <2>2. ASSUME webrtc'.id # 0
        PROVE  mode' = mode /\ link' \in {link, "live"}
    <3>1. ASSUME NEW command \in Commands, Command(command)
          PROVE  mode' = mode /\ link' = link
      BY <3>1 DEF Command, stageVars
    <3>2. ASSUME \/ Write \/ Configuration \/ Sync \/ Default \/ Select
                 \/ PollCapture \/ StartCapture \/ Halt
          PROVE  mode' = mode /\ link' = link
      BY <3>2 DEF Write, Configuration, Sync, Default, Select, PollCapture, StartCapture, Halt, stageVars
    <3>3. ASSUME Disconnect \/ Stop \/ Connect \/ Poll \/ Drain \/ Send
          PROVE  mode' = mode /\ link' = link
      BY <3>3 DEF Disconnect, Stop, Connect, Poll, Drain, Send, stageVars
    <3>4. ASSUME NEW step, NEW m, NEW s, NEW l, Replace(step, m, s, l)
          PROVE  FALSE
      BY <1>4, <3>4 DEF Replace
    <3>5. ~Reset /\ ~Restart
      BY <1>4 DEF Reset, Restart
    <3>6. ASSUME HandleWaiting \/ HandlePeer \/ HandleOffer \/ HandleAnswer \/ HandleCandidate
          PROVE  mode' = mode /\ link' = link
      BY <3>6 DEF HandleWaiting, HandlePeer, HandleOffer, HandleAnswer, HandleCandidate, NextEvent
    <3>7. ASSUME Offer \/ UpdateStage
          PROVE  mode' = mode /\ link' \in {link, "live"}
      BY <3>7 DEF Offer, UpdateStage
    <3>8. ASSUME Frame \/ WorkerEnds \/ Callback \/ Server \/ UNCHANGED vars
          PROVE  mode' = mode /\ link' = link
      BY <3>8 DEF Frame, WorkerEnds, Callback, Server, vars, stageVars
    <3>9. QED
      BY <1>4, <3>1, <3>2, <3>3, <3>4, <3>5, <3>6, <3>7, <3>8 DEF Next, Session
  <2>3. QED
    BY <2>1, <2>2 DEF Lively
<1>5. QED
  BY <1>2, <1>3, <1>4

\* What is said, is sent, or is lost: the steps that can change one of these.
LEMMA SpeechSteps ==
  ASSUME TypeOK, [Next]_vars
  PROVE  \/ UNCHANGED <<outbox, client, up, sent>> /\ Owed' \subseteq Owed
         \/ ~up'
         \/ Transport \/ Connect \/ Poll \/ HandleOffer \/ Offer \/ Drain \/ Send \/ Server
<1> USE DEF peerVars, taskVars, Owed
<1>1. ASSUME NEW command \in Commands, Command(command)
      PROVE  UNCHANGED <<outbox, peerVars>>
  BY <1>1 DEF Command
<1>2. ASSUME \/ Write \/ Configuration \/ Sync \/ Default \/ Select
             \/ PollCapture \/ StartCapture \/ Halt
      PROVE  UNCHANGED <<outbox, peerVars>>
  BY <1>2 DEF Write, Configuration, Sync, Default, Select, PollCapture, StartCapture, Halt
<1>3. ASSUME Disconnect \/ Stop \/ Reset \/ Restart
      PROVE  ~up'
  BY <1>3 DEF Disconnect, Stop, Disconnected, Reset, Restart
<1>4. ASSUME NEW step, NEW m, NEW s, NEW l, Replace(step, m, s, l)
      PROVE  ~up'
  BY <1>4 DEF Replace
<1>5. ASSUME HandleWaiting \/ HandlePeer \/ HandleCandidate
      PROVE  UNCHANGED <<outbox, peerVars>>
  BY <1>5 DEF HandleWaiting, HandlePeer, HandleCandidate, Refused, NextEvent
<1>6. ASSUME HandleAnswer
      PROVE  UNCHANGED <<outbox, client, up, sent>> /\ Owed' = Owed
  <2>1. UNCHANGED <<outbox, client, up, sent>> /\ webrtc' \in {webrtc, WithRemoteAnswer(webrtc)}
    BY <1>6 DEF HandleAnswer, Refused, NextEvent
  <2>2. webrtc'.local = webrtc.local /\ webrtc'.drained = webrtc.drained
    BY <2>1 DEF WithRemoteAnswer, TypeOK, Transports
  <2>3. QED
    BY <2>1, <2>2
<1>7. ASSUME UpdateStage \/ Frame \/ WorkerEnds \/ UNCHANGED vars
      PROVE  UNCHANGED <<outbox, peerVars>>
  BY <1>7 DEF UpdateStage, Frame, WorkerEnds, vars
<1>8. ASSUME Callback
      PROVE  UNCHANGED <<outbox, client, up, sent>> /\ Owed' = Owed
  <2>1. /\ UNCHANGED <<outbox, client, up, sent>>
        /\ webrtc' = Gathered(webrtc) \/ \E state \in ConnectionStates : webrtc' = WithState(webrtc, state)
    BY <1>8 DEF Callback
  <2>2. webrtc'.local = webrtc.local /\ webrtc'.drained = webrtc.drained
    BY <2>1 DEF Gathered, WithState, TypeOK, Transports
  <2>3. QED
    BY <2>1, <2>2
<1>9. QED
  BY <1>1, <1>2, <1>3, <1>4, <1>5, <1>6, <1>7, <1>8 DEF Next, Session

LEMMA LinkedStep ==
  ASSUME TypeOK, Linked, [Next]_vars
  PROVE  Linked'
<1> USE DEF Linked
<1>1. CASE UNCHANGED <<outbox, client, up, sent>>
  BY <1>1 DEF Connected
<1>2. CASE Connect
  BY <1>2 DEF Connect, NewClient, Connected
<1>3. CASE Poll
  BY <1>3 DEF Poll, Polled, Connected, TypeOK, Clients
<1>4. CASE Server
  BY <1>4 DEF Server, Arrived, Ended, Connected, TypeOK, Clients
<1>5. CASE Transport \/ HandleOffer \/ Offer \/ Drain
  BY <1>5 DEF Transport, HandleOffer, NextEvent, Offer, Drain, Connected
<1>6. CASE Send
  BY <1>6 DEF Send, Unsent, Connected
<1>7. QED
  BY <1>1, <1>2, <1>3, <1>4, <1>5, <1>6, SpeechSteps

\* The signals about to be sent, when one is added to none or one is sent.
LEMMA OneIsPending == ASSUME outbox' = <<Description>> PROVE Pending' = {Description}
BY DEF Pending

LEMMA OneIsTaken ==
  ASSUME outbox \in Seq(Signals), outbox # <<>>, outbox' = Tail(outbox)
  PROVE  Pending \subseteq {Head(outbox)} \cup Pending'
<1>1. /\ DOMAIN outbox = 1..Len(outbox) /\ DOMAIN outbox' = 1..(Len(outbox) - 1)
      /\ Len(outbox) \in Nat /\ Head(outbox) = outbox[1]
  OBVIOUS
<1>2. ASSUME NEW i \in DOMAIN outbox, i # 1
      PROVE  outbox[i] \in Pending'
  <2>1. i - 1 \in DOMAIN outbox' /\ outbox'[i - 1] = outbox[i]
    BY <1>1, <1>2
  <2>2. QED
    BY <2>1 DEF Pending
<1>3. QED
  BY <1>1, <1>2 DEF Pending

LEMMA ToldStep ==
  ASSUME TypeOK, InOrder(todo), Unspoken, Linked, Told, [Next]_vars
  PROVE  Told'
<1> SUFFICES ASSUME up' PROVE Owed' \subseteq sent' \cup Pending'
  BY DEF Told
<1>1. CASE UNCHANGED <<outbox, client, up, sent>> /\ Owed' \subseteq Owed
  BY <1>1 DEF Told, Pending
<1>2. CASE Transport
  <2>1. UNCHANGED <<outbox, up, sent>> /\ webrtc' \in {webrtc, NewTransport(made + 1, mode)}
    BY <1>2 DEF Transport
  <2>2. CASE webrtc' = webrtc
    BY <2>1, <2>2 DEF Told, Pending, Owed
  <2>3. CASE webrtc' = NewTransport(made + 1, mode)
    BY <2>3 DEF NewTransport, Owed
  <2>4. QED
    BY <2>1, <2>2, <2>3
<1>3. CASE Connect
  <2>1. webrtc.local = "none" /\ webrtc.drained = 0 /\ webrtc' = webrtc
    BY <1>3, HeadAwaitsNothing DEF Connect, At, Unspoken, Blank, Links, InOrder
  <2>2. QED
    BY <2>1 DEF Owed
<1>4. CASE Poll
  <2>1. UNCHANGED <<outbox, up, sent, webrtc>>
    BY <1>4 DEF Poll
  <2>2. QED
    BY <2>1 DEF Told, Pending, Owed
<1>5. CASE Server
  <2>1. UNCHANGED <<outbox, up, sent, webrtc>>
    BY <1>5 DEF Server, taskVars
  <2>2. QED
    BY <2>1 DEF Told, Pending, Owed
<1>6. CASE HandleOffer \/ Offer
  <2>1. UNCHANGED <<up, sent>> /\ outbox = <<>>
    BY <1>6 DEF HandleOffer, NextEvent, Offer, At
  <2>2. \/ UNCHANGED <<outbox, webrtc>>
        \/ outbox' = <<Description>> /\ webrtc' \in {WithRemoteOffer(webrtc), WithLocalOffer(webrtc)}
    BY <1>6 DEF HandleOffer, Refused, Offer
  <2>3. CASE UNCHANGED <<outbox, webrtc>>
    BY <2>1, <2>3 DEF Told, Pending, Owed
  <2>4. CASE outbox' = <<Description>> /\ webrtc' \in {WithRemoteOffer(webrtc), WithLocalOffer(webrtc)}
    <3>1. Pending = {} /\ Pending' = {Description}
      BY <2>1, <2>4, OneIsPending DEF Pending
    <3>2. webrtc'.drained = webrtc.drained
      BY <2>4 DEF WithRemoteOffer, WithLocalOffer, TypeOK, Transports
    <3>3. 1..webrtc.drained \subseteq sent
      BY <2>1, <3>1 DEF Told, Owed
    <3>4. QED
      BY <2>1, <3>1, <3>2, <3>3 DEF Owed
  <2>5. QED
    BY <2>2, <2>3, <2>4
<1>7. CASE Drain
  <2>1. /\ outbox = <<>> /\ UNCHANGED <<up, sent>> /\ webrtc' = Drained(webrtc)
        /\ outbox' = [i \in 1..(webrtc.gathered - webrtc.drained) |-> webrtc.drained + i]
    BY <1>7 DEF Drain, At
  <2>2. webrtc.gathered \in Nat /\ webrtc.drained \in Nat
    BY DEF TypeOK, Transports
  <2>3. webrtc'.local = webrtc.local /\ webrtc'.drained = webrtc.gathered
    BY <2>1 DEF Drained, TypeOK, Transports
  <2>4. Owed \subseteq sent
    BY <2>1 DEF Told, Pending
  <2>5. ASSUME NEW n \in 1..webrtc.gathered, n \notin 1..webrtc.drained
        PROVE  n \in Pending'
    <3>1. n - webrtc.drained \in DOMAIN outbox' /\ outbox'[n - webrtc.drained] = n
      BY <2>1, <2>2, <2>5
    <3>2. QED
      BY <3>1 DEF Pending
  <2>6. QED
    BY <2>1, <2>3, <2>4, <2>5 DEF Owed
<1>8. CASE Send
  <2>1. /\ outbox # <<>> /\ outbox' = Tail(outbox) /\ webrtc' = webrtc
        /\ outbox \in Seq(Signals)
    BY <1>8 DEF Send, TypeOK
  <2>2. up /\ sent' = sent \cup {Head(outbox)}
    BY <1>8 DEF Send, Unsent, Linked
  <2>3. QED
    BY <2>1, <2>2, OneIsTaken DEF Told, Owed
<1>9. QED
  BY <1>1, <1>2, <1>3, <1>4, <1>5, <1>6, <1>7, <1>8, SpeechSteps

\* A signal that is neither sent nor about to be is reported.
LEMMA Reported ==
  ASSUME TypeOK, Told, Lively, Numbered
  PROVE  LossIsReported
<1>1. CASE up
  BY <1>1 DEF Told, Pending, LossIsReported
<1>2. CASE webrtc.id = 0
  <2>1. Owed = {}
    BY <1>2 DEF Numbered, NoTransport, NewTransport, Owed
  <2>2. QED
    BY <2>1 DEF LossIsReported
<1>3. CASE ~up /\ webrtc.id # 0
  <2>1. mode \in {"host", "viewer"} /\ link = "live"
    BY <1>3 DEF Lively, TypeOK
  <2>2. Recovery \in {"stopped", "signaling_unavailable"}
    BY <1>3, <2>1 DEF Recovery
  <2>3. NextAction # "wait for the answer"
    BY <1>3, <2>1 DEF NextAction
  <2>4. QED
    BY <2>2, <2>3 DEF LossIsReported, Snapshot, Recommended
<1>4. QED
  BY <1>1, <1>2, <1>3

-----------------------------------------------------------------------------
(***************************************************************************)
(* The theorems.                                                            *)
(***************************************************************************)

\* What all reachable states of a session have in common.
Inductive ==
  /\ TypeOK /\ InOrder(todo) /\ Prepared
  /\ Quiet /\ Silent /\ Closing
  /\ Capturing /\ CaptureUsesCurrentTransport
  /\ Synced /\ Defaulted /\ HostSelectionIsOffered
  /\ RestoredAudioWasSaved
  /\ Unspoken /\ Numbered /\ Lively /\ Linked /\ Told /\ Answered

LEMMA InitInductive == Init => Inductive
<1> SUFFICES ASSUME Init PROVE Inductive
  OBVIOUS
<1>1. TypeOK /\ InOrder(todo)
  BY InitType
<1>2. Prepared /\ Synced /\ Defaulted
  BY DEF Init, Prepared, Synced, Defaulted, Awaits, Valid
<1>3. Quiet /\ Silent /\ Closing
  BY DEF Init, Quiet, Silent, Closing, NoTransport, NewTransport
<1>4. Capturing /\ CaptureUsesCurrentTransport
  BY DEF Init, Capturing, CaptureUsesCurrentTransport, NoCapture
<1>5. HostSelectionIsOffered /\ RestoredAudioWasSaved
  BY DEF Init, HostSelectionIsOffered, RestoredAudioWasSaved, NoSelection
<1>6. Unspoken /\ Numbered /\ Lively /\ Linked /\ Told /\ Answered
  BY DEF Init, Unspoken, Awaits, Numbered, Lively, Linked, Told, Answered, NoTransport, NewTransport
<1>7. QED
  BY <1>1, <1>2, <1>3, <1>4, <1>5, <1>6 DEF Inductive

LEMMA InductiveStep == Inductive /\ [Next]_vars => Inductive'
<1> SUFFICES ASSUME Inductive, [Next]_vars PROVE Inductive'
  OBVIOUS
<1> USE DEF Inductive
<1>1. TypeOK'
  BY TypeStep
<1>2. InOrder(todo)'
  BY OrderStep DEF TypeOK
<1>3. Prepared' /\ Quiet' /\ Silent' /\ Closing'
  BY PreparedStep, QuietStep, SilentStep, ClosingStep
<1>4. Capturing' /\ CaptureUsesCurrentTransport'
  BY CapturingStep, AttachedStep
<1>5. Synced' /\ Defaulted' /\ HostSelectionIsOffered'
  BY SyncedStep, DefaultedStep, OfferedStep
<1>6. RestoredAudioWasSaved'
  BY SavedStep
<1>7. Unspoken' /\ Numbered' /\ Lively' /\ Linked' /\ Told' /\ Answered'
  BY UnspokenStep, NumberedStep, LivelyStep, LinkedStep, ToldStep, AnsweredStep
<1>8. QED
  BY <1>1, <1>2, <1>3, <1>4, <1>5, <1>6, <1>7

LEMMA Invariance == Spec => []Inductive
  BY InitInductive, InductiveStep, PTL DEF Spec

\* The variables of the session keep their types, and the steps of the running
\* command their order.
THEOREM TypeCorrect == Spec => [](TypeOK /\ InOrder(todo))
<1>1. Inductive => TypeOK /\ InOrder(todo)
  BY DEF Inductive
<1>2. QED
  BY <1>1, Invariance, PTL

\* However commands, discoveries of sources, a withdrawn permission, the worker's
\* end and restarts follow each other: what is captured is what is selected, in a
\* host session that is not stopped.
THEOREM CaptureIsSelected == Spec => []CaptureFollowsSelection
<1>1. Inductive => CaptureFollowsSelection
  BY DEF Inductive, Capturing, CaptureFollowsSelection
<1>2. QED
  BY <1>1, Invariance, PTL

\* The capture runtime never outlives the transport it publishes to.
THEOREM CaptureIsAttached == Spec => []CaptureUsesCurrentTransport
<1>1. Inductive => CaptureUsesCurrentTransport
  BY DEF Inductive
<1>2. QED
  BY <1>1, Invariance, PTL

\* A host's selection is in the catalog it is shown with; none is selected only
\* if there is none.
THEOREM SelectionIsOffered == Spec => []HostSelectionIsOffered
<1>1. Inductive => HostSelectionIsOffered
  BY DEF Inductive
<1>2. QED
  BY <1>1, Invariance, PTL

\* A file that was cut off never brings back audio that was not saved.
THEOREM AudioWasSaved == Spec => []RestoredAudioWasSaved
<1>1. Inductive => RestoredAudioWasSaved
  BY DEF Inductive
<1>2. QED
  BY <1>1, Invariance, PTL

\* As long as there are sources, only the user switches a host's audio on:
\* rebinding keeps it off, and so does starting the host anew.
THEOREM AudioIsKeptOff == Spec => AudioStaysOff
<1>1. Inductive /\ [Next]_vars =>
        [mode = "host" /\ mode' = "host" /\ ~selection.audio /\ selection'.audio
           => At("select") \/ (At("sync") /\ catalog.sources = <<>>)]_vars
  BY AudioOffStep DEF Inductive
<1>2. QED
  BY <1>1, Invariance, PTL DEF Spec, AudioStaysOff

\* A stopped session is revived by nothing but its replacement.
THEOREM StopIsFinal == Spec => StoppedStaysStopped
<1>1. Inductive /\ [Next]_vars =>
        [stage = "stopped" /\ stage' # "stopped" => webrtc' = NoTransport /\ sent' = {}]_vars
  BY StaysStoppedStep DEF Inductive
<1>2. QED
  BY <1>1, Invariance, PTL DEF Spec, StoppedStaysStopped

\* However sends fail and connections end: a signal the transport has handed out
\* is sent, or about to be, or the user is told that the connection is gone.
THEOREM LossIsTold == Spec => []LossIsReported
<1>1. Inductive => LossIsReported
  BY Reported DEF Inductive
<1>2. QED
  BY <1>1, Invariance, PTL

\* An offer that was answered is never made anew on the same transport.
THEOREM OfferIsMadeOnce == Spec => AnsweredStaysAnswered
<1>1. Inductive /\ [Next]_vars =>
        [webrtc.remote = "answer" /\ webrtc'.id = webrtc.id
           => webrtc'.signaling # "have-local-offer"]_vars
  BY AnsweredStep DEF Inductive
<1>2. QED
  BY <1>1, Invariance, PTL DEF Spec, AnsweredStaysAnswered
=============================================================================
