-------------------------- MODULE PendingAcksProofs --------------------------
(***************************************************************************)
(* The spans of deliveries end, and end for a reason, for any number of    *)
(* Consume calls, of goroutines that Get or settle, and of deliveries.     *)
(***************************************************************************)
EXTENDS PendingAcks, TLAPS

\* The lists of the Consume calls are not those of the channel.
LEMMA ListsDiffer ==
  ASSUME NEW t \in Sources
  PROVE  t \notin Nat /\ t # 1 /\ t # 2
  BY PendingAcksAssumption DEF Sources

\* No goroutine is of two kinds.
LEMMA KindsDiffer ==
  /\ \A c \in Consumers : c \notin Getters /\ c \notin Settlers
  /\ \A g \in Getters : g \notin Settlers
  /\ \A t \in Sources \cup Settlers : t # "shutdown"
  BY PendingAcksAssumption DEF Sources

\* A goroutine that registers has a delivery of its own.
LEMMA Holding ==
  ASSUME AcksInv, NEW t \in Sources, at[t] \in {"acksFor", "local", "channel", "send"}
  PROVE  holds[t] \in Tags /\ source[holds[t]] = t
<1>1. holds[t] \in 0..MaxTag
  BY DEF AcksInv, TypeOK
<1>2. holds[t] # 0
  BY DEF AcksInv, HoldsInv
<1>3. holds[t] \in Tags
  BY <1>1, <1>2, PendingAcksAssumption DEF Tags
<1> QED
  BY <1>2, <1>3 DEF AcksInv, HoldsInv

\* A settle call is about deliveries, and takes out no other.
LEMMA MatchesCovers ==
  ASSUME NEW c \in Calls
  PROVE  Matches(c) = Covers(c) /\ Covers(c) \subseteq Tags
<1>1. c.tag \in Tags /\ c.multiple \in BOOLEAN
  BY DEF Calls
<1>2. c.tag <= c.tag
  BY <1>1, PendingAcksAssumption DEF Tags
<1>3. CASE c.multiple
  BY <1>1, <1>2, <1>3 DEF Matches, Covers
<1>4. CASE ~ c.multiple
  BY <1>1, <1>4 DEF Matches, Covers
<1> QED
  BY <1>1, <1>3, <1>4

\* A span that is ended or ending stays so when a settler takes more spans.
LEMMA SettlerTakes ==
  ASSUME AcksInv, NEW s \in Settlers, at[s] \in {"hook", "first", "second", "local", "channel"},
         toEnd[s] = {},
         NEW next \in {"first", "second", "local", "channel", "return"},
         at' = [at EXCEPT ![s] = next],
         UNCHANGED <<shutdown, closed, delivery, entry, holds, call>>,
         \/ UNCHANGED <<acks, toEnd>>
         \/ \E l \in Lists : Take(s, l, Matches(call[s]))
  PROVE  /\ TypeOK' /\ HoldsInv' /\ TakenInv' /\ EntryInv' /\ KeptInv' /\ LocalInv'
         /\ EndJustified'
         /\ \A d \in Tags : EndedOrEnding(d) => EndedOrEnding(d)'
<1> USE DEF AcksInv, Sources, Lists, Threads, Shutdown, Ended, delivery
<1>1. call[s] \in Calls /\ Covers(call[s]) \subseteq Tags
  BY MatchesCovers DEF TakenInv, ListsInv, TakersInv, CallsInv
<1>2. PICK T \in SUBSET Covers(call[s]) :
        /\ acks' \in [Lists -> SUBSET Tags] /\ toEnd' = [toEnd EXCEPT ![s] = T]
        /\ \A l \in Lists : acks'[l] \subseteq acks[l] /\ acks[l] \ acks'[l] \subseteq T
        /\ \A d \in T : \E l \in Lists : d \in acks[l]
  <2>1. CASE UNCHANGED <<acks, toEnd>>
    <3> WITNESS {} \in SUBSET Covers(call[s])
    <3> QED
      BY <2>1 DEF TypeOK
  <2>2. CASE \E l \in Lists : Take(s, l, Matches(call[s]))
    <3>1. PICK l \in Lists : Take(s, l, Matches(call[s]))
      BY <2>2
    <3> WITNESS acks[l] \cap Covers(call[s]) \in SUBSET Covers(call[s])
    <3>2. Matches(call[s]) = Covers(call[s])
      BY <1>1, MatchesCovers
    <3>3. acks' = [acks EXCEPT ![l] = @ \ Covers(call[s])]
      BY <3>1, <3>2 DEF Take
    <3>4. toEnd' = [toEnd EXCEPT ![s] = acks[l] \cap Covers(call[s])]
      BY <3>1, <3>2 DEF Take
    <3> QED
      BY <3>3, <3>4 DEF TypeOK
  <2> QED
    BY <2>1, <2>2
<1>3. toEnd'[s] = T /\ \A t \in Threads \ {s} : toEnd'[t] = toEnd[t]
  BY <1>2 DEF TypeOK
<1>4. TypeOK'
  BY <1>1, <1>2, PendingAcksAssumption DEF TypeOK
<1>5. HoldsInv' /\ EntryInv'
  BY PendingAcksAssumption DEF TypeOK, HoldsInv, EntryInv
<1>6. \A d \in Tags : Taken(d) => Taken(d)'
  BY <1>3 DEF Taken
<1>7. \A l \in Lists : \A d \in acks[l] : d \in acks'[l] \/ Taken(d)'
  BY <1>2, <1>3 DEF Taken
<1>8. TakenInv'
  BY <1>1, <1>2, <1>3, PendingAcksAssumption DEF TypeOK, TakenInv, ListsInv, TakersInv, CallsInv
<1>9. KeptInv'
  <2>1. \A d \in Tags : Registered(d)' => Registered(d)
    BY PendingAcksAssumption DEF TypeOK, HoldsInv, Registered
  <2> QED
    BY <1>6, <1>7, <2>1 DEF KeptInv
<1>10. LocalInv'
  BY <1>6, <1>7, PendingAcksAssumption DEF TypeOK, LocalInv
<1>11. EndJustified'
  BY DEF EndJustified
<1>12. \A d \in Tags : EndedOrEnding(d) => EndedOrEnding(d)'
  BY <1>6, <1>7 DEF EndedOrEnding, Ending
<1> QED
  BY <1>4, <1>5, <1>8, <1>9, <1>10, <1>11, <1>12

\* A new span is its source's, in no list, and not yet registered.
LEMMA InvStart ==
  ASSUME AcksInv, NEW t \in Sources, NEW d \in Tags, Start(t, d),
         t \in Consumers => at[t] = "receive" /\ t \notin closed,
         t \in Getters => at[t] = "idle"
  PROVE  AcksInv'
<1> USE PendingAcksAssumption
   DEF Sources, Lists, Threads, Shutdown, Ended, Tags, delivery, Start
<1> TypeOK /\ HoldsInv /\ TakenInv /\ EntryInv /\ KeptInv /\ SettledInv /\ LocalInv /\ EndJustified
  BY DEF AcksInv
<1>1. TypeOK'
  BY DEF TypeOK, Calls, NoCall, Answers
<1>2. HoldsInv'
  BY DEF TypeOK, HoldsInv
<1>3. TakenInv'
  BY DEF TypeOK, HoldsInv, TakenInv, ListsInv, TakersInv, CallsInv, Calls, Answers, Covers
<1>4. EntryInv'
  BY DEF TypeOK, HoldsInv, EntryInv
<1>5. KeptInv'
  <2>1. \A e \in Tags : Registered(e)' => Registered(e)
    BY DEF TypeOK, HoldsInv, Registered
  <2>2. \A e \in Tags : Registered(e) => span'[e] = span[e]
    BY DEF TypeOK, HoldsInv, Registered
  <2> QED
    BY <2>1, <2>2 DEF KeptInv, Taken
<1>6. SettledInv'
  BY DEF TypeOK, HoldsInv, TakenInv, ListsInv, TakersInv, CallsInv, EntryInv, KeptInv,
         SettledInv, Registered, EndedOrEnding, Ending, Taken
<1>7. LocalInv'
  BY DEF TypeOK, HoldsInv, TakenInv, ListsInv, TakersInv, CallsInv, LocalInv, Taken
<1>8. EndJustified'
  BY DEF TypeOK, HoldsInv, TakenInv, ListsInv, TakersInv, CallsInv, EndJustified
<1> QED
  BY <1>1, <1>2, <1>3, <1>4, <1>5, <1>6, <1>7, <1>8 DEF AcksInv

\* The list a delivery is given is the entry's.
LEMMA InvAcksFor ==
  ASSUME AcksInv, NEW t \in Sources, AcksFor(t)
  PROVE  AcksInv'
<1> USE PendingAcksAssumption
   DEF Sources, Lists, Threads, Shutdown, Ended, Tags, delivery, AcksFor
<1> TypeOK /\ HoldsInv /\ TakenInv /\ EntryInv /\ KeptInv /\ SettledInv /\ LocalInv /\ EndJustified
  BY DEF AcksInv
<1>0. holds[t] \in Tags /\ source[holds[t]] = t
  BY Holding
<1>1. TypeOK'
  BY <1>0 DEF TypeOK, Calls, NoCall, Answers
<1>2. HoldsInv'
  BY <1>0 DEF TypeOK, HoldsInv
<1>3. TakenInv'
  BY <1>0 DEF TypeOK, HoldsInv, TakenInv, ListsInv, TakersInv, CallsInv, Calls, Answers, Covers
<1>4. EntryInv'
  BY <1>0 DEF TypeOK, HoldsInv, EntryInv
<1>5. KeptInv'
  BY <1>0
     DEF TypeOK, HoldsInv, TakenInv, ListsInv, TakersInv, CallsInv, EntryInv, KeptInv,
         Registered, Taken
<1>6. SettledInv'
  BY <1>0
     DEF TypeOK, HoldsInv, TakenInv, ListsInv, TakersInv, CallsInv, EntryInv, KeptInv,
         SettledInv, Registered, EndedOrEnding, Ending, Taken
<1>7. LocalInv'
  BY <1>0 DEF TypeOK, HoldsInv, TakenInv, ListsInv, TakersInv, CallsInv, LocalInv, Taken
<1>8. EndJustified'
  BY <1>0 DEF TypeOK, HoldsInv, TakenInv, ListsInv, TakersInv, CallsInv, EndJustified
<1> QED
  BY <1>1, <1>2, <1>3, <1>4, <1>5, <1>6, <1>7, <1>8 DEF AcksInv

\* The span is in its Consume call's list from here on.
LEMMA InvAddLocal ==
  ASSUME AcksInv, NEW t \in Consumers, AddLocal(t)
  PROVE  AcksInv'
<1> USE PendingAcksAssumption
   DEF Sources, Lists, Threads, Shutdown, Ended, Tags, delivery, AddLocal, Add
<1> TypeOK /\ HoldsInv /\ TakenInv /\ EntryInv /\ KeptInv /\ SettledInv /\ LocalInv /\ EndJustified
  BY DEF AcksInv
<1>0. holds[t] \in Tags /\ source[holds[t]] = t
  BY Holding
<1>1. TypeOK'
  BY <1>0 DEF TypeOK, Calls, NoCall, Answers
<1>2. HoldsInv'
  BY <1>0 DEF TypeOK, HoldsInv
<1>3. TakenInv'
  BY <1>0 DEF TypeOK, HoldsInv, TakenInv, ListsInv, TakersInv, CallsInv, Calls, Answers, Covers
<1>4. EntryInv'
  BY <1>0 DEF TypeOK, HoldsInv, EntryInv
<1>5. KeptInv'
  BY <1>0
     DEF TypeOK, HoldsInv, TakenInv, ListsInv, TakersInv, CallsInv, EntryInv, KeptInv,
         Registered, Taken
<1>6. SettledInv'
  BY <1>0
     DEF TypeOK, HoldsInv, TakenInv, ListsInv, TakersInv, CallsInv, EntryInv, KeptInv,
         SettledInv, Registered, EndedOrEnding, Ending, Taken
<1>7. LocalInv'
  BY <1>0 DEF TypeOK, HoldsInv, TakenInv, ListsInv, TakersInv, CallsInv, LocalInv, Taken
<1>8. EndJustified'
  BY <1>0 DEF TypeOK, HoldsInv, TakenInv, ListsInv, TakersInv, CallsInv, EndJustified
<1> QED
  BY <1>1, <1>2, <1>3, <1>4, <1>5, <1>6, <1>7, <1>8 DEF AcksInv

\* The span is registered, with the list that shutdown will take or too late.
LEMMA InvAddChannel ==
  ASSUME AcksInv, NEW t \in Sources, AddChannel(t)
  PROVE  AcksInv'
<1> USE PendingAcksAssumption DEF Sources, Lists, Threads, Shutdown, Ended, Tags, delivery
<1> TypeOK /\ HoldsInv /\ TakenInv /\ EntryInv /\ KeptInv /\ SettledInv /\ LocalInv /\ EndJustified
  BY DEF AcksInv
<1> DEFINE d == holds[t]
           l == channel[d]
<1>1. d \in Tags /\ source[d] = t /\ at[t] = "channel"
  BY Holding DEF AddChannel
<1>2. l \in {1, 2} /\ l \notin Consumers
  <2>1. d # 0
    BY <1>1
  <2>2. l # 0
    BY <1>1, <2>1 DEF HoldsInv
  <2>3. l \in 0..2
    BY <1>1 DEF TypeOK
  <2> QED
    BY <2>2, <2>3, ListsDiffer
<1>3. /\ acks' = [acks EXCEPT ![l] = @ \cup {d}]
      /\ late' = IF shutdown = "done" \/ l = 2 THEN late \cup {d} ELSE late
      /\ UNCHANGED <<shutdown, closed, source, span, channel, answers, entry, call, toEnd>>
  BY DEF AddChannel, Add
<1>4. /\ at' = [at EXCEPT ![t] = IF t \in Consumers THEN "send" ELSE "idle"]
      /\ handed' = IF t \in Consumers THEN handed ELSE handed \cup {d}
      /\ holds' = IF t \in Consumers THEN holds ELSE [holds EXCEPT ![t] = 0]
  BY DEF AddChannel
<1> HIDE DEF d, l
<1>5. TypeOK'
  <2>1. acks' \in [Lists -> SUBSET Tags] /\ late' \subseteq Tags
    BY <1>1, <1>2, <1>3 DEF TypeOK
  <2>2. handed' \subseteq Tags /\ holds' \in [Sources -> 0..MaxTag]
    BY <1>1, <1>4 DEF TypeOK
  <2>3. /\ at' \in [Sources \cup Settlers -> {"receive", "acksFor", "local", "channel", "send",
                                            "done", "idle", "hook", "first", "second",
                                            "return"}]
        /\ \A c \in Consumers :
             at'[c] \in {"receive", "acksFor", "local", "channel", "send", "done"}
        /\ \A g \in Getters : at'[g] \in {"idle", "acksFor", "channel"}
        /\ \A s \in Settlers :
             at'[s] \in {"idle", "hook", "first", "second", "local", "channel", "return"}
    BY <1>4, KindsDiffer DEF TypeOK
  <2> QED
    BY <1>3, <2>1, <2>2, <2>3 DEF TypeOK
<1>6. \A k \in Lists : acks[k] \subseteq acks'[k] /\ acks'[k] \subseteq acks[k] \cup {d}
  BY <1>2, <1>3 DEF TypeOK
<1>7. /\ acks'[1] = IF l = 1 THEN acks[1] \cup {d} ELSE acks[1]
      /\ \A c \in Consumers : acks'[c] = acks[c]
  BY <1>2, <1>3 DEF TypeOK
<1>8. HoldsInv'
  <2>1. CASE t \in Consumers
    BY <1>1, <1>2, <1>3, <1>4, <2>1 DEF TypeOK, HoldsInv, d, l
  <2>2. CASE t \in Getters
    BY <1>1, <1>2, <1>3, <1>4, <2>2 DEF TypeOK, HoldsInv, d, l
  <2> QED
    BY <2>1, <2>2
<1>9. TakenInv'
  <2>1. \A c \in Consumers : (at'[c] = "done") = (at[c] = "done")
    BY <1>1, <1>4 DEF TypeOK
  <2>2. \A s \in Settlers : at'[s] = at[s]
    BY <1>4 DEF TypeOK
  <2>3. handed \subseteq handed'
    BY <1>4
  <2>4. span[d] # "none"
    BY <1>1 DEF HoldsInv
  <2>5. ListsInv'
    BY <1>3, <1>6, <1>7, <2>4 DEF TakenInv, ListsInv
  <2>6. TakersInv'
    BY <1>3, <1>7, <2>1 DEF TakenInv, TakersInv
  <2>7. CallsInv'
    BY <1>3, <2>2, <2>3 DEF TakenInv, CallsInv
  <2> QED
    BY <2>5, <2>6, <2>7 DEF TakenInv
<1>10. EntryInv'
  BY <1>1, <1>2, <1>3 DEF TypeOK, EntryInv, d, l
<1>11. KeptInv'
  <2>1. \A e \in Tags : e # d /\ Registered(e)' => Registered(e)
    BY <1>1, <1>3, <1>4 DEF TypeOK, HoldsInv, Registered, d
  <2>2. d \in late' \/ (channel'[d] = 1 /\ d \in acks'[1] /\ shutdown' # "done")
    BY <1>2, <1>3, <1>7 DEF TypeOK, l
  <2> QED
    BY <1>3, <1>7, <2>1, <2>2 DEF KeptInv, Taken
<1>12. SettledInv'
  <2>1. \A e \in Tags : EndedOrEnding(e) => EndedOrEnding(e)'
    BY <1>3, <1>7 DEF EndedOrEnding, Ending, Taken
  <2>2. late \subseteq late'
    BY <1>3
  <2>3. \A s \in Settlers : at'[s] = at[s]
    BY <1>4 DEF TypeOK
  <2>4. \A s \in Settlers : at[s] # "idle" => call[s].given \subseteq Tags
    BY DEF TypeOK, TakenInv, ListsInv, TakersInv, CallsInv
  <2> QED
    BY <1>3, <2>1, <2>2, <2>3, <2>4 DEF SettledInv
<1>13. LocalInv'
  BY <1>1, <1>3, <1>4, <1>7 DEF TypeOK, LocalInv, Taken, d
<1>14. EndJustified'
  BY <1>3 DEF EndJustified
<1> QED
  BY <1>5, <1>8, <1>9, <1>10, <1>11, <1>12, <1>13, <1>14 DEF AcksInv

\* The delivery is handed out after both registrations.
LEMMA InvSend ==
  ASSUME AcksInv, NEW t \in Consumers, Send(t)
  PROVE  AcksInv'
<1> USE PendingAcksAssumption DEF Sources, Lists, Threads, Shutdown, Ended, Tags, delivery, Send
<1> TypeOK /\ HoldsInv /\ TakenInv /\ EntryInv /\ KeptInv /\ SettledInv /\ LocalInv /\ EndJustified
  BY DEF AcksInv
<1>0. holds[t] \in Tags /\ source[holds[t]] = t
  BY Holding
<1>1. TypeOK'
  <2>1. handed' \subseteq Tags
    BY <1>0 DEF TypeOK
  <2>2. holds' \in [Sources -> 0..MaxTag]
    BY DEF TypeOK
  <2> QED
    BY <2>1, <2>2 DEF TypeOK
<1>2. HoldsInv'
  BY <1>0 DEF TypeOK, HoldsInv
<1>3. TakenInv'
  BY <1>0 DEF TypeOK, HoldsInv, TakenInv, ListsInv, TakersInv, CallsInv, Calls, Answers, Covers
<1>4. EntryInv'
  BY <1>0 DEF TypeOK, HoldsInv, EntryInv
<1>5. KeptInv'
  BY <1>0
     DEF TypeOK, HoldsInv, TakenInv, ListsInv, TakersInv, CallsInv, EntryInv, KeptInv,
         Registered, Taken
<1>6. SettledInv'
  BY <1>0
     DEF TypeOK, HoldsInv, TakenInv, ListsInv, TakersInv, CallsInv, EntryInv, KeptInv,
         SettledInv, Registered, EndedOrEnding, Ending, Taken
<1>7. LocalInv'
  BY <1>0 DEF TypeOK, HoldsInv, TakenInv, ListsInv, TakersInv, CallsInv, LocalInv, Taken
<1>8. EndJustified'
  BY <1>0 DEF TypeOK, HoldsInv, TakenInv, ListsInv, TakersInv, CallsInv, EndJustified
<1> QED
  BY <1>1, <1>2, <1>3, <1>4, <1>5, <1>6, <1>7, <1>8 DEF AcksInv

\* endAll takes the Consume call's list, and only spans of its own.
LEMMA InvWrapperEnds ==
  ASSUME AcksInv, NEW t \in Consumers, WrapperEnds(t)
  PROVE  AcksInv'
<1> USE PendingAcksAssumption
   DEF Sources, Lists, Threads, Shutdown, Ended, Tags, delivery, WrapperEnds, Take
<1> TypeOK /\ HoldsInv /\ TakenInv /\ EntryInv /\ KeptInv /\ SettledInv /\ LocalInv /\ EndJustified
  BY DEF AcksInv
<1>0. t # 1
  BY ListsDiffer
<1>1. TypeOK'
  BY DEF TypeOK, Calls, NoCall, Answers
<1>2. HoldsInv'
  BY DEF TypeOK, HoldsInv
<1>3. TakenInv'
  BY DEF TypeOK, HoldsInv, TakenInv, ListsInv, TakersInv, CallsInv, Calls, Answers, Covers
<1>4. EntryInv'
  BY DEF TypeOK, HoldsInv, EntryInv
<1>5. KeptInv'
  <2>1. \A d \in Tags : Taken(d) => Taken(d)'
    BY DEF TypeOK, TakenInv, ListsInv, TakersInv, CallsInv, Taken
  <2>2. \A d \in Tags : Registered(d)' => Registered(d)
    BY DEF TypeOK, HoldsInv, Registered
  <2>3. acks'[1] = acks[1]
    BY <1>0 DEF TypeOK
  <2> QED
    BY <2>1, <2>2, <2>3 DEF KeptInv
<1>6. SettledInv'
  BY DEF TypeOK, HoldsInv, TakenInv, ListsInv, TakersInv, CallsInv, EntryInv, KeptInv,
         SettledInv, Registered, EndedOrEnding, Ending, Taken
<1>7. LocalInv'
  BY DEF TypeOK, HoldsInv, TakenInv, ListsInv, TakersInv, CallsInv, LocalInv, Taken
<1>8. EndJustified'
  BY DEF TypeOK, HoldsInv, TakenInv, ListsInv, TakersInv, CallsInv, EndJustified
<1> QED
  BY <1>1, <1>2, <1>3, <1>4, <1>5, <1>6, <1>7, <1>8 DEF AcksInv

\* Closing a consume channel touches no span.
LEMMA InvCancel ==
  ASSUME AcksInv, NEW t \in Consumers, Cancel(t)
  PROVE  AcksInv'
<1> USE PendingAcksAssumption
   DEF Sources, Lists, Threads, Shutdown, Ended, Tags, delivery, Cancel
<1> TypeOK /\ HoldsInv /\ TakenInv /\ EntryInv /\ KeptInv /\ SettledInv /\ LocalInv /\ EndJustified
  BY DEF AcksInv
<1>1. TypeOK'
  BY DEF TypeOK, Calls, NoCall, Answers
<1>2. HoldsInv'
  BY DEF TypeOK, HoldsInv
<1>3. TakenInv'
  BY DEF TypeOK, HoldsInv, TakenInv, ListsInv, TakersInv, CallsInv, Calls, Answers, Covers
<1>4. EntryInv'
  BY DEF TypeOK, HoldsInv, EntryInv
<1>5. KeptInv'
  BY DEF TypeOK, HoldsInv, TakenInv, ListsInv, TakersInv, CallsInv, EntryInv, KeptInv,
         Registered, Taken
<1>6. SettledInv'
  BY DEF TypeOK, HoldsInv, TakenInv, ListsInv, TakersInv, CallsInv, EntryInv, KeptInv,
         SettledInv, Registered, EndedOrEnding, Ending, Taken
<1>7. LocalInv'
  BY DEF TypeOK, HoldsInv, TakenInv, ListsInv, TakersInv, CallsInv, LocalInv, Taken
<1>8. EndJustified'
  BY DEF TypeOK, HoldsInv, TakenInv, ListsInv, TakersInv, CallsInv, EndJustified
<1> QED
  BY <1>1, <1>2, <1>3, <1>4, <1>5, <1>6, <1>7, <1>8 DEF AcksInv

\* A call that returns has nothing left to end.
LEMMA InvReturn ==
  ASSUME AcksInv, NEW s \in Settlers, Return(s)
  PROVE  AcksInv'
<1> USE PendingAcksAssumption
   DEF Sources, Lists, Threads, Shutdown, Ended, Tags, delivery, Return, Settling
<1> TypeOK /\ HoldsInv /\ TakenInv /\ EntryInv /\ KeptInv /\ SettledInv /\ LocalInv /\ EndJustified
  BY DEF AcksInv
<1>1. TypeOK'
  BY DEF TypeOK, Calls, NoCall, Answers
<1>2. HoldsInv'
  BY DEF TypeOK, HoldsInv
<1>3. TakenInv'
  BY DEF TypeOK, HoldsInv, TakenInv, ListsInv, TakersInv, CallsInv, Calls, Answers, Covers
<1>4. EntryInv'
  BY DEF TypeOK, HoldsInv, EntryInv
<1>5. KeptInv'
  BY DEF TypeOK, HoldsInv, TakenInv, ListsInv, TakersInv, CallsInv, EntryInv, KeptInv,
         Registered, Taken
<1>6. SettledInv'
  BY DEF TypeOK, HoldsInv, TakenInv, ListsInv, TakersInv, CallsInv, EntryInv, KeptInv,
         SettledInv, Registered, EndedOrEnding, Ending, Taken
<1>7. LocalInv'
  BY DEF TypeOK, HoldsInv, TakenInv, ListsInv, TakersInv, CallsInv, LocalInv, Taken
<1>8. EndJustified'
  BY DEF TypeOK, HoldsInv, TakenInv, ListsInv, TakersInv, CallsInv, EndJustified
<1> QED
  BY <1>1, <1>2, <1>3, <1>4, <1>5, <1>6, <1>7, <1>8 DEF AcksInv

\* A span ends with the status of the call, or of the teardown, that took it.
LEMMA InvEnd ==
  ASSUME AcksInv, NEW t \in Threads, NEW d \in Tags, End(t, d)
  PROVE  AcksInv'
<1> USE PendingAcksAssumption DEF Sources, Lists, Threads, Shutdown, Ended, Tags, delivery, End
<1> TypeOK /\ HoldsInv /\ TakenInv /\ EntryInv /\ KeptInv /\ SettledInv /\ LocalInv /\ EndJustified
  BY DEF AcksInv
<1>1. TypeOK'
  BY DEF TypeOK, Calls, NoCall, Answers
<1>2. HoldsInv'
  BY DEF TypeOK, HoldsInv
<1>3. TakenInv'
  BY DEF TypeOK, HoldsInv, TakenInv, ListsInv, TakersInv, CallsInv, Calls, Answers, Covers
<1>4. EntryInv'
  BY DEF TypeOK, HoldsInv, EntryInv
<1>5. KeptInv'
  BY DEF TypeOK, HoldsInv, TakenInv, ListsInv, TakersInv, CallsInv, EntryInv, KeptInv,
         Registered, Taken
<1>6. SettledInv'
  BY DEF TypeOK, HoldsInv, TakenInv, ListsInv, TakersInv, CallsInv, EntryInv, KeptInv,
         SettledInv, Registered, EndedOrEnding, Ending, Taken
<1>7. LocalInv'
  BY DEF TypeOK, HoldsInv, TakenInv, ListsInv, TakersInv, CallsInv, LocalInv, Taken
<1>8. EndJustified'
  <2>1. CASE t \in Settlers
    <3>1. call[t].answer \in answers[d] /\ call[t].answer \in Answers
      BY <2>1 DEF TakenInv, ListsInv, TakersInv, CallsInv, Calls
    <3> QED
      BY <2>1, <3>1 DEF TypeOK, EndJustified, Answers
  <2>2. CASE t \in Consumers
    <3>1. source[d] \in closed
      BY <2>2 DEF TypeOK, TakenInv, ListsInv, TakersInv, CallsInv
    <3> QED
      BY <2>2, <3>1 DEF TypeOK, EndJustified
  <2>3. CASE t \in Getters
    BY <2>3 DEF TakenInv, ListsInv, TakersInv, CallsInv
  <2>4. CASE t = "shutdown"
    BY <2>4 DEF TypeOK, TakenInv, ListsInv, TakersInv, CallsInv, EndJustified
  <2> QED
    BY <2>1, <2>2, <2>3, <2>4
<1> QED
  BY <1>1, <1>2, <1>3, <1>4, <1>5, <1>6, <1>7, <1>8 DEF AcksInv

\* Closing the channel touches no span.
LEMMA InvCloseChannel ==
  ASSUME AcksInv, CloseChannel
  PROVE  AcksInv'
<1> USE PendingAcksAssumption
   DEF Sources, Lists, Threads, Shutdown, Ended, Tags, delivery, CloseChannel
<1> TypeOK /\ HoldsInv /\ TakenInv /\ EntryInv /\ KeptInv /\ SettledInv /\ LocalInv /\ EndJustified
  BY DEF AcksInv
<1>1. TypeOK'
  BY DEF TypeOK, Calls, NoCall, Answers
<1>2. HoldsInv'
  BY DEF TypeOK, HoldsInv
<1>3. TakenInv'
  BY DEF TypeOK, HoldsInv, TakenInv, ListsInv, TakersInv, CallsInv, Calls, Answers, Covers
<1>4. EntryInv'
  BY DEF TypeOK, HoldsInv, EntryInv
<1>5. KeptInv'
  BY DEF TypeOK, HoldsInv, TakenInv, ListsInv, TakersInv, CallsInv, EntryInv, KeptInv,
         Registered, Taken
<1>6. SettledInv'
  BY DEF TypeOK, HoldsInv, TakenInv, ListsInv, TakersInv, CallsInv, EntryInv, KeptInv,
         SettledInv, Registered, EndedOrEnding, Ending, Taken
<1>7. LocalInv'
  BY DEF TypeOK, HoldsInv, TakenInv, ListsInv, TakersInv, CallsInv, LocalInv, Taken
<1>8. EndJustified'
  BY DEF TypeOK, HoldsInv, TakenInv, ListsInv, TakersInv, CallsInv, EndJustified
<1> QED
  BY <1>1, <1>2, <1>3, <1>4, <1>5, <1>6, <1>7, <1>8 DEF AcksInv

\* The entry that is deleted is the first list, if any delivery has one.
LEMMA InvDeleteEntry ==
  ASSUME AcksInv, DeleteEntry
  PROVE  AcksInv'
<1> USE PendingAcksAssumption
   DEF Sources, Lists, Threads, Shutdown, Ended, Tags, delivery, DeleteEntry
<1> TypeOK /\ HoldsInv /\ TakenInv /\ EntryInv /\ KeptInv /\ SettledInv /\ LocalInv /\ EndJustified
  BY DEF AcksInv
<1>1. TypeOK'
  BY DEF TypeOK, Calls, NoCall, Answers
<1>2. HoldsInv'
  BY DEF TypeOK, HoldsInv
<1>3. TakenInv'
  BY DEF TypeOK, HoldsInv, TakenInv, ListsInv, TakersInv, CallsInv, Calls, Answers, Covers
<1>4. EntryInv'
  BY DEF TypeOK, HoldsInv, EntryInv
<1>5. KeptInv'
  BY DEF TypeOK, HoldsInv, TakenInv, ListsInv, TakersInv, CallsInv, EntryInv, KeptInv,
         Registered, Taken
<1>6. SettledInv'
  BY DEF TypeOK, HoldsInv, TakenInv, ListsInv, TakersInv, CallsInv, EntryInv, KeptInv,
         SettledInv, Registered, EndedOrEnding, Ending, Taken
<1>7. LocalInv'
  BY DEF TypeOK, HoldsInv, TakenInv, ListsInv, TakersInv, CallsInv, LocalInv, Taken
<1>8. EndJustified'
  BY DEF TypeOK, HoldsInv, TakenInv, ListsInv, TakersInv, CallsInv, EndJustified
<1> QED
  BY <1>1, <1>2, <1>3, <1>4, <1>5, <1>6, <1>7, <1>8 DEF AcksInv

\* endAll takes the first list; what is added to it later is too late.
LEMMA InvEndAll ==
  ASSUME AcksInv, EndAll
  PROVE  AcksInv'
<1> USE PendingAcksAssumption
   DEF Sources, Lists, Threads, Shutdown, Ended, Tags, delivery, EndAll, Take
<1> TypeOK /\ HoldsInv /\ TakenInv /\ EntryInv /\ KeptInv /\ SettledInv /\ LocalInv /\ EndJustified
  BY DEF AcksInv
<1>1. TypeOK'
  BY DEF TypeOK, Calls, NoCall, Answers
<1>2. HoldsInv'
  BY DEF TypeOK, HoldsInv
<1>3. TakenInv'
  BY DEF TypeOK, HoldsInv, TakenInv, ListsInv, TakersInv, CallsInv, Calls, Answers, Covers
<1>4. EntryInv'
  BY DEF TypeOK, HoldsInv, EntryInv
<1>5. KeptInv'
  BY DEF TypeOK, HoldsInv, TakenInv, ListsInv, TakersInv, CallsInv, EntryInv, KeptInv,
         Registered, Taken
<1>6. SettledInv'
  BY DEF TypeOK, HoldsInv, TakenInv, ListsInv, TakersInv, CallsInv, EntryInv, KeptInv,
         SettledInv, Registered, EndedOrEnding, Ending, Taken
<1>7. LocalInv'
  BY DEF TypeOK, HoldsInv, TakenInv, ListsInv, TakersInv, CallsInv, LocalInv, Taken
<1>8. EndJustified'
  BY DEF TypeOK, HoldsInv, TakenInv, ListsInv, TakersInv, CallsInv, EndJustified
<1> QED
  BY <1>1, <1>2, <1>3, <1>4, <1>5, <1>6, <1>7, <1>8 DEF AcksInv

\* Settle: what the application had of what the call covers.
LEMMA InvSettle ==
  ASSUME AcksInv, NEW s \in Settlers, NEW c \in Calls, c.given = handed, Settle(s, c)
  PROVE  AcksInv'
<1> USE PendingAcksAssumption DEF Sources, Lists, Threads, Shutdown, Ended, delivery
<1> TypeOK /\ HoldsInv /\ TakenInv /\ EntryInv /\ KeptInv /\ SettledInv /\ LocalInv /\ EndJustified
  BY DEF AcksInv
<1> DEFINE new == [c EXCEPT !.given = @ \cap Covers(c)]
<1>1. /\ at[s] = "idle" /\ toEnd[s] = {} /\ c.tag \in handed
      /\ call' = [call EXCEPT ![s] = new] /\ at' = [at EXCEPT ![s] = "hook"]
      /\ answers' = [d \in Tags |-> answers[d] \cup (IF d \in Covers(c) THEN {c.answer} ELSE {})]
      /\ UNCHANGED <<shutdown, closed, source, span, channel, handed, late, acks, entry, holds, toEnd>>
  BY DEF Settle, Settling
<1>2. new \in Calls /\ new.tag = c.tag /\ new.answer = c.answer /\ new.given = handed \cap Covers(c)
  BY DEF Calls
<1>3. Covers(new) = Covers(c)
  BY DEF Covers, Calls
<1> HIDE DEF new
<1>4. \A t \in Sources : at'[t] = at[t]
  BY <1>1, KindsDiffer DEF TypeOK
<1>5. answers' \in [Tags -> SUBSET Answers] /\ \A d \in Tags : answers[d] \subseteq answers'[d]
  BY <1>1 DEF TypeOK, Calls
<1>6. TypeOK'
  BY <1>1, <1>2, <1>5, KindsDiffer DEF TypeOK
<1>7. HoldsInv' /\ EntryInv'
  BY <1>1, <1>4 DEF TypeOK, HoldsInv, EntryInv
<1>8. TakenInv'
  <2>1. ListsInv' /\ TakersInv'
    BY <1>1, <1>4 DEF TakenInv, ListsInv, TakersInv
  <2>2. \A d \in Covers(c) : c.answer \in answers'[d]
    BY <1>1 DEF TypeOK, Covers
  <2>3. call'[s] = new /\ at'[s] = "hook"
    BY <1>1 DEF TypeOK
  <2>4. \A u \in Settlers \ {s} : call'[u] = call[u] /\ at'[u] = at[u]
    BY <1>1 DEF TypeOK
  <2>5. \A u \in Settlers : call[u] \in Calls => Covers(call[u]) \subseteq Tags
    BY DEF Covers
  <2>6. CallsInv'
    BY <1>1, <1>2, <1>3, <1>5, <2>2, <2>3, <2>4, <2>5, SMTT(20) DEF TakenInv, CallsInv
  <2> QED
    BY <2>1, <2>6 DEF TakenInv
<1>9. KeptInv'
  <2>1. \A d \in Tags : Registered(d)' => Registered(d)
    BY <1>1, <1>4 DEF TypeOK, HoldsInv, Registered
  <2> QED
    BY <1>1, <2>1 DEF KeptInv, Taken
<1>10. SettledInv'
  BY <1>1 DEF TypeOK, SettledInv, EndedOrEnding, Ending, Taken
<1>11. LocalInv'
  BY <1>1, <1>4 DEF LocalInv, Taken
<1>12. EndJustified'
  BY <1>1, <1>5 DEF EndJustified
<1> QED
  BY <1>6, <1>7, <1>8, <1>9, <1>10, <1>11, <1>12 DEF AcksInv

\* acksLookup finds the first list, or what was registered in time is ended or ending.
LEMMA InvAcksLookup ==
  ASSUME AcksInv, NEW s \in Settlers, AcksLookup(s)
  PROVE  AcksInv'
<1> TypeOK /\ HoldsInv /\ TakenInv /\ EntryInv /\ KeptInv /\ SettledInv
  BY DEF AcksInv
<1> DEFINE next == CASE entry = 0 -> HookDone(s)
                     [] entry = 1 -> "first"
                     [] OTHER     -> "second"
<1>1. /\ at[s] = "hook" /\ toEnd[s] = {} /\ at' = [at EXCEPT ![s] = next]
      /\ UNCHANGED <<shutdown, closed, delivery, acks, toEnd, entry, holds, call>>
  BY DEF AcksLookup, Settling
<1>2. next \in {"first", "second", "local", "return"} /\ (entry = 1 => next = "first")
  BY DEF HookDone
<1> HIDE DEF next
<1>3. /\ TypeOK' /\ HoldsInv' /\ TakenInv' /\ EntryInv' /\ KeptInv' /\ LocalInv' /\ EndJustified'
      /\ \A d \in Tags : EndedOrEnding(d) => EndedOrEnding(d)'
  BY <1>1, <1>2, SettlerTakes
<1>4. call[s] \in Calls /\ call[s].given \subseteq Covers(call[s]) \cap handed /\ Covers(call[s]) \subseteq Tags
  BY <1>1, MatchesCovers DEF TakenInv, CallsInv
<1>5. ASSUME NEW d \in call[s].given \ late, entry # 1
      PROVE  EndedOrEnding(d)'
  <2>1. d \in Tags /\ Registered(d)
    BY <1>4, <1>5 DEF HoldsInv, Registered
  <2>2. CASE span[d] \in Ended \/ Taken(d)
    BY <1>3, <2>1, <2>2 DEF EndedOrEnding, Ending
  <2>3. CASE channel[d] = 1 /\ d \in acks[1] /\ shutdown # "done"
    <3>1. shutdown = "deleted"
      BY <1>5, <2>1, <2>3 DEF TypeOK, EntryInv
    <3> QED
      BY <1>3, <2>1, <2>3, <3>1 DEF EndedOrEnding, Ending
  <2> QED
    BY <1>5, <2>1, <2>2, <2>3 DEF KeptInv
<1>6. SettledInv'
  <2>1. at'[s] # "first" => \A d \in call[s].given \ late : EndedOrEnding(d)'
    BY <1>1, <1>2, <1>5 DEF TypeOK
  <2>2. \A u \in Settlers \ {s} : at'[u] = at[u]
    BY <1>1 DEF TypeOK
  <2>3. \A u \in Settlers : at[u] # "idle" => call[u].given \subseteq Tags
    BY DEF TypeOK, TakenInv, CallsInv
  <2> QED
    BY <1>1, <1>3, <2>1, <2>2, <2>3 DEF SettledInv, delivery
<1> QED
  BY <1>3, <1>6 DEF AcksInv

\* SettleHook is where a call reaches all that was registered in time.
LEMMA InvSettleHook ==
  ASSUME AcksInv, NEW s \in Settlers, SettleHook(s)
  PROVE  AcksInv'
<1> TypeOK /\ HoldsInv /\ TakenInv /\ EntryInv /\ KeptInv /\ SettledInv
  BY DEF AcksInv
<1> DEFINE list == IF at[s] = "first" THEN 1 ELSE 2
<1>1. /\ at[s] \in {"first", "second"} /\ toEnd[s] = {} /\ at' = [at EXCEPT ![s] = HookDone(s)]
      /\ UNCHANGED <<shutdown, closed, delivery, entry, holds, call>>
      /\ Take(s, list, Matches(call[s]))
  BY DEF SettleHook, Settling
<1>2. list \in Lists
  BY DEF Lists
<1>3. /\ TypeOK' /\ HoldsInv' /\ TakenInv' /\ EntryInv' /\ KeptInv' /\ LocalInv' /\ EndJustified'
      /\ \A d \in Tags : EndedOrEnding(d) => EndedOrEnding(d)'
  <2>1. HookDone(s) \in {"local", "return"}
    BY DEF HookDone
  <2> HIDE DEF list
  <2> QED
    BY <1>1, <1>2, <2>1, SettlerTakes
<1>4. call[s] \in Calls /\ call[s].given \subseteq Covers(call[s]) \cap handed /\ Covers(call[s]) \subseteq Tags
  BY <1>1, MatchesCovers DEF TakenInv, CallsInv
<1>5. ASSUME NEW d \in call[s].given \ late
      PROVE  EndedOrEnding(d)'
  <2>1. d \in Tags /\ d \in Covers(call[s]) /\ Registered(d)
    BY <1>4, <1>5 DEF HoldsInv, Registered
  <2>2. CASE span[d] \in Ended \/ Taken(d)
    BY <1>3, <2>1, <2>2 DEF EndedOrEnding, Ending
  <2>3. CASE channel[d] = 1 /\ d \in acks[1] /\ shutdown # "done"
    <3>1. CASE at[s] = "first"
      <4>1. Take(s, 1, Covers(call[s]))
        BY <1>1, <1>4, <3>1, MatchesCovers
      <4>2. toEnd'[s] = acks[1] \cap Covers(call[s])
        BY <4>1 DEF Take, TypeOK, Threads
      <4> QED
        BY <2>1, <2>3, <4>2 DEF EndedOrEnding, Ending, Taken, Threads
    <3>2. CASE at[s] = "second"
      BY <1>3, <1>5, <2>1, <3>2 DEF SettledInv
    <3> QED
      BY <1>1, <3>1, <3>2
  <2> QED
    BY <1>5, <2>1, <2>2, <2>3 DEF KeptInv
<1>6. SettledInv'
  <2>1. \A u \in Settlers \ {s} : at'[u] = at[u]
    BY <1>1 DEF TypeOK
  <2>2. \A u \in Settlers : at[u] # "idle" => call[u].given \subseteq Tags
    BY DEF TypeOK, TakenInv, CallsInv
  <2> QED
    BY <1>1, <1>3, <1>5, <2>1, <2>2 DEF SettledInv, delivery
<1> QED
  BY <1>3, <1>6 DEF AcksInv

\* finish can only end more.
LEMMA InvSettleFinish ==
  ASSUME AcksInv, NEW s \in Settlers, SettleLocal(s) \/ SettleChannel(s)
  PROVE  AcksInv'
<1> TypeOK /\ HoldsInv /\ TakenInv /\ SettledInv
  BY DEF AcksInv
<1>1. at[s] \in {"local", "channel"} /\ toEnd[s] = {}
  BY DEF SettleLocal, SettleChannel, Settling
<1>2. PICK next \in {"channel", "return"} : at' = [at EXCEPT ![s] = next]
  BY DEF SettleLocal, SettleChannel
<1>3. UNCHANGED <<shutdown, closed, delivery, entry, holds, call>>
  BY DEF SettleLocal, SettleChannel
<1>4. call[s].tag \in Tags /\ channel[call[s].tag] \in {1, 2}
  BY <1>1 DEF TypeOK, TakenInv, CallsInv, HoldsInv
<1>5. UNCHANGED <<acks, toEnd>> \/ \E l \in Lists : Take(s, l, Matches(call[s]))
  BY <1>4 DEF SettleLocal, SettleChannel, Lists
<1>6. /\ TypeOK' /\ HoldsInv' /\ TakenInv' /\ EntryInv' /\ KeptInv' /\ LocalInv' /\ EndJustified'
      /\ \A d \in Tags : EndedOrEnding(d) => EndedOrEnding(d)'
  BY <1>1, <1>2, <1>3, <1>5, SettlerTakes
<1>7. SettledInv'
  <2>1. \A u \in Settlers : at'[u] \in {"second", "local", "channel", "return"} =>
                              at[u] \in {"second", "local", "channel", "return"}
    BY <1>1, <1>2 DEF TypeOK
  <2>2. \A u \in Settlers : at[u] # "idle" => call[u].given \subseteq Tags
    BY DEF TypeOK, TakenInv, CallsInv
  <2> QED
    BY <1>3, <1>6, <2>1, <2>2 DEF SettledInv, delivery
<1> QED
  BY <1>6, <1>7 DEF AcksInv

\* AcksInv holds on a channel that has delivered nothing.
LEMMA InitAcks == Init => AcksInv
<1> SUFFICES ASSUME Init
             PROVE  AcksInv
  OBVIOUS
<1> USE PendingAcksAssumption, KindsDiffer
    DEF Init, Tags, Sources, Lists, Threads, Shutdown, Ended, NoCall
<1>1. TypeOK
  BY DEF TypeOK
<1>2. HoldsInv
  BY DEF HoldsInv
<1>3. TakenInv
  BY DEF TakenInv, ListsInv, TakersInv, CallsInv
<1>4. EntryInv /\ EndJustified
  BY DEF EntryInv, EndJustified
<1>5. KeptInv
  BY DEF KeptInv, Registered
<1>6. SettledInv
  BY DEF SettledInv
<1>7. LocalInv
  BY DEF LocalInv
<1> QED
  BY <1>1, <1>2, <1>3, <1>4, <1>5, <1>6, <1>7 DEF AcksInv

\* AcksInv is inductive.
LEMMA NextAcks == AcksInv /\ [Next]_vars => AcksInv'
<1> SUFFICES ASSUME AcksInv, [Next]_vars
             PROVE  AcksInv'
  OBVIOUS
<1>1. ASSUME NEW c \in Consumers, NEW d \in Tags, Receive(c, d)
      PROVE  AcksInv'
  BY <1>1, InvStart, KindsDiffer DEF Receive, Sources
<1>2. ASSUME NEW g \in Getters, NEW d \in Tags, Get(g, d)
      PROVE  AcksInv'
  BY <1>2, InvStart, KindsDiffer DEF Get, Sources
<1>3. ASSUME NEW c \in Consumers, AddLocal(c) \/ Send(c) \/ WrapperEnds(c) \/ Cancel(c)
      PROVE  AcksInv'
  BY <1>3, InvAddLocal, InvSend, InvWrapperEnds, InvCancel
<1>4. ASSUME NEW t \in Sources, AcksFor(t) \/ AddChannel(t)
      PROVE  AcksInv'
  BY <1>4, InvAcksFor, InvAddChannel
<1>5. ASSUME NEW s \in Settlers, NEW d \in Tags, NEW multiple \in BOOLEAN,
             NEW ofDelivery \in BOOLEAN, NEW answer \in Answers,
             Settle(s, [tag |-> d, multiple |-> multiple, delivery |-> ofDelivery,
                        answer |-> answer, given |-> handed])
      PROVE  AcksInv'
  <2> DEFINE c == [tag |-> d, multiple |-> multiple, delivery |-> ofDelivery,
                   answer |-> answer, given |-> handed]
  <2>1. c \in Calls /\ c.given = handed
    BY DEF AcksInv, TypeOK, Calls
  <2>2. Settle(s, c)
    BY <1>5
  <2> HIDE DEF c
  <2> QED
    BY <2>1, <2>2, InvSettle
<1>6. ASSUME NEW s \in Settlers,
             AcksLookup(s) \/ SettleHook(s) \/ SettleLocal(s) \/ SettleChannel(s) \/ Return(s)
      PROVE  AcksInv'
  BY <1>6, InvAcksLookup, InvSettleHook, InvSettleFinish, InvReturn
<1>7. ASSUME NEW t \in Threads, NEW d \in Tags, End(t, d)
      PROVE  AcksInv'
  BY <1>7, InvEnd
<1>8. CASE CloseChannel \/ DeleteEntry \/ EndAll
  BY <1>8, InvCloseChannel, InvDeleteEntry, InvEndAll
<1>9. CASE UNCHANGED vars
  BY <1>9
     DEF vars, delivery, AcksInv, TypeOK, HoldsInv, TakenInv, ListsInv, TakersInv, CallsInv,
     EntryInv, KeptInv, SettledInv, LocalInv, EndJustified, Registered, EndedOrEnding, Ending,
     Taken, Covers
<1> QED
  BY <1>1, <1>2, <1>3, <1>4, <1>5, <1>6, <1>7, <1>8, <1>9 DEF Next, Sources

\* In every state every registered span is ended, about to be, or in the list that
\* the hook of shutdown will take: AcksInv always holds.
THEOREM AcksInvariant == Spec => []AcksInv
  BY InitAcks, NextAcks, PTL DEF Spec

\* When a settle call returns it has ended the spans it covers, or somebody is
\* about to: settle and endAll take each span out under the lock exactly once.
THEOREM SettledEndsHolds == Spec => []SettledEnds
<1>1. AcksInv => SettledEnds
  BY DEF AcksInv, SettledInv, SettledEnds
<1> QED
  BY <1>1, AcksInvariant, PTL

\* After AfterShutdown no span that was registered in time is left.
THEOREM TeardownEndsHolds == Spec => []TeardownEnds
<1>1. AcksInv => TeardownEnds
  BY DEF AcksInv, KeptInv, TeardownEnds, EndedOrEnding, Ending
<1> QED
  BY <1>1, AcksInvariant, PTL

\* A Consume call whose wrapper has ended leaves no span, however late it was
\* registered with the channel.
THEOREM WrapperLeavesNoneHolds == Spec => []WrapperLeavesNone
<1>1. AcksInv => WrapperLeavesNone
  <2> SUFFICES ASSUME AcksInv, NEW d \in Tags, source[d] \in Consumers, at[source[d]] = "done"
               PROVE  EndedOrEnding(d)
    BY DEF WrapperLeavesNone
  <2>1. acks[source[d]] = {}
    BY DEF AcksInv, TakenInv, TakersInv
  <2> QED
    BY <2>1 DEF AcksInv, LocalInv, EndedOrEnding, Ending
<1> QED
  BY <1>1, AcksInvariant, PTL

\* The status of a span is that of a call that covers its delivery, or of a
\* teardown.
THEOREM EndJustifiedHolds == Spec => []EndJustified
<1>1. AcksInv => EndJustified
  BY DEF AcksInv
<1> QED
  BY <1>1, AcksInvariant, PTL

\* The types of the state.
THEOREM AcksTypes == Spec => []TypeOK
<1>1. AcksInv => TypeOK
  BY DEF AcksInv
<1> QED
  BY <1>1, AcksInvariant, PTL
=============================================================================
