-------------------------- MODULE AgentRegistryProofs --------------------------
(* Proofs about the registry, for every number of agents, threads, commands *)
(* and operations.                                                          *)
EXTENDS AgentRegistryProperties, TLAPS

RowType == [thread : Thread, status : {"active", "superseded"}, owner : Binding]

(* An element of a sequence is replaced.                                     *)
LEMMA ElementReplaced ==
  ASSUME NEW T, NEW s \in Seq(T), NEW k \in DOMAIN s, NEW x \in T
  PROVE  /\ [s EXCEPT ![k] = x] \in Seq(T)
         /\ Len([s EXCEPT ![k] = x]) = Len(s)
         /\ \A h \in DOMAIN s : [s EXCEPT ![k] = x][h] = IF h = k THEN x ELSE s[h]
  OBVIOUS

IntentType ==
  [kind : {"status", "replace", "adopt"}, agent : Agent, status : Status \cup {Nothing},
   thread : Thread \cup {Nothing}, owner : Binding \cup {Nothing},
   generation : Nat \ {0}, read : Status]

(* What a command has read was true, and it may do what it is about to do.  *)
IntentOK(i) ==
  /\ i \in IntentType
  /\ i.agent \in Registered
  /\ i.generation <= agents[i.agent].generation
  /\ i.kind = "status" => i.status \in Status /\ (i.read \in Retired => i.status = i.read)
  /\ i.kind = "replace" => i.thread \in Thread /\ i.owner \in Binding
  /\ i.kind = "adopt" => i.owner \in Binding

IntentsOK ==
  /\ intent \in [Operator -> IntentType \cup {Nothing}]
  /\ \A c \in Operator : intent[c] # Nothing => IntentOK(intent[c])

RegistryInvariant == RegistryTypeOK /\ IntentsOK /\ GenerationsAgree /\ RowFollowsAgent

(* The variables of the registry proper.                                    *)
registered == <<agents, generations, intent, raced>>

LEMMA RegistryStarts == RegistryInit => RegistryInvariant
<1> SUFFICES ASSUME RegistryInit PROVE RegistryInvariant
  OBVIOUS
<1> USE RegistryAssumption
<1>1. RegistryTypeOK
  BY DEF RegistryInit, RegistryTypeOK, Registered, Record, Row, Status
<1>2. IntentsOK
  BY DEF RegistryInit, IntentsOK
<1>3. GenerationsAgree
  BY DEF RegistryInit, GenerationsAgree, Registered, Record, Row, Current, Last
<1>4. RowFollowsAgent
  BY DEF RegistryInit, RowFollowsAgent, Registered, Record, Row, Current, Last
<1>5. QED
  BY <1>1, <1>2, <1>3, <1>4 DEF RegistryInvariant

LEMMA RegistryStutters == RegistryInvariant /\ UNCHANGED registered => RegistryInvariant'
<1> SUFFICES ASSUME RegistryInvariant, UNCHANGED registered PROVE RegistryInvariant'
  OBVIOUS
<1> USE DEF RegistryInvariant, registered
<1>1. RegistryTypeOK'
  BY DEF RegistryTypeOK, Registered
<1>2. IntentsOK'
  BY DEF IntentsOK, IntentOK, Registered
<1>3. GenerationsAgree'
  BY DEF GenerationsAgree, Registered, Current
<1>4. RowFollowsAgent'
  BY DEF RowFollowsAgent, Registered, Current
<1>5. QED
  BY <1>1, <1>2, <1>3, <1>4

(* What was read stays in order while agents are added and replaced.        *)
LEMMA IntentsStay ==
  ASSUME RegistryInvariant, Registered \subseteq Registered',
         \A a \in Registered : agents[a].generation <= agents'[a].generation,
         \A a \in Registered : agents'[a].generation \in Nat,
         intent' \in [Operator -> IntentType \cup {Nothing}],
         \A c \in Operator : intent'[c] = Nothing \/ intent'[c] = intent[c]
  PROVE  IntentsOK'
<1>1. ASSUME NEW c \in Operator, intent'[c] # Nothing
      PROVE  IntentOK(intent[c])'
  <2>1. intent'[c] = intent[c] /\ IntentOK(intent[c])
    BY <1>1 DEF RegistryInvariant, IntentsOK
  <2>2. intent[c].generation <= agents'[intent[c].agent].generation
    <3>1. intent[c].agent \in Registered /\ intent[c].generation \in Nat
      BY <2>1 DEF IntentOK, IntentType
    <3>2. agents[intent[c].agent].generation \in Nat
      BY <3>1 DEF RegistryInvariant, RegistryTypeOK
    <3>3. QED
      BY <2>1, <3>1, <3>2 DEF IntentOK
  <2>3. QED
    BY <2>1, <2>2 DEF IntentOK
<1>2. QED
  BY <1>1 DEF IntentsOK

LEMMA RegisterStep ==
  ASSUME RegistryInvariant, NEW a \in Agent, NEW t \in Thread, NEW o \in Binding,
         Register(a, t, o)
  PROVE  RegistryInvariant'
<1> USE DEF RegistryInvariant
<1>1. /\ Registered' = Registered \cup {a}
      /\ agents'[a] = Record(t, 1, o) /\ generations'[a] = <<Row(t, o)>>
      /\ \A b \in Registered : agents'[b] = agents[b] /\ generations'[b] = generations[b]
      /\ UNCHANGED <<intent, raced>>
      /\ a \notin Registered /\ Unused(t)
      /\ agents' = [b \in Registered \cup {a} |-> IF b = a THEN Record(t, 1, o) ELSE agents[b]]
      /\ DOMAIN generations' = Registered'
  BY DEF Registered, Register
<1>2. RegistryTypeOK'
  <2>1. agents' \in [Registered' -> [thread : Thread, generation : Nat \ {0},
                                     status : Status, owner : Binding]]
    BY <1>1 DEF RegistryTypeOK, Registered, Record, Status
  <2>2. \A b \in Registered' : generations'[b] \in Seq(RowType)
    <3>1. Row(t, o) \in RowType
      BY DEF Row, RowType
    <3>2. generations'[a] \in Seq(RowType)
      BY <1>1, <3>1
    <3>3. \A b \in Registered : generations'[b] \in Seq(RowType)
      BY <1>1 DEF RegistryTypeOK, RowType
    <3>4. QED
      BY <1>1, <3>2, <3>3
  <2>3. generations' \in [Registered' -> Seq(RowType)]
    BY <1>1, <2>2 DEF RegistryTypeOK, Register
  <2>4. \A c \in Operator : intent'[c] # Nothing => intent'[c].agent \in Registered'
    BY <1>1 DEF RegistryTypeOK
  <2>5. raced' \subseteq Agent /\ Registered' \subseteq Agent
    BY <1>1 DEF RegistryTypeOK
  <2>6. QED
    BY <2>1, <2>3, <2>4, <2>5 DEF RegistryTypeOK, RowType
<1>3. IntentsOK'
  <2>1. \A b \in Registered : agents'[b].generation \in Nat
    BY <1>1 DEF RegistryTypeOK
  <2>2. \A b \in Registered : agents[b].generation <= agents'[b].generation
    BY <1>1, <2>1
  <2>3. intent' \in [Operator -> IntentType \cup {Nothing}]
    BY <1>1 DEF IntentsOK
  <2>4. QED
    BY <1>1, <2>1, <2>2, <2>3, IntentsStay
<1>4. GenerationsAgree'
  <2>1. ASSUME NEW b \in Registered'
        PROVE  /\ agents'[b].generation = Len(generations'[b])
               /\ generations'[b] # <<>>
               /\ agents'[b].thread = Current(b)'.thread
               /\ agents'[b].owner = Current(b)'.owner
               /\ \A g \in 1 .. Len(generations'[b]) - 1 : generations'[b][g].status = "superseded"
    <3>1. CASE b = a
      BY <1>1, <3>1 DEF Current, Last, Record, Row
    <3>2. CASE b # a
      BY <1>1, <3>2 DEF Current, GenerationsAgree
    <3>3. QED
      BY <3>1, <3>2
  <2>2. ASSUME NEW b \in Registered', NEW c \in Registered',
               NEW g \in DOMAIN generations'[b], NEW h \in DOMAIN generations'[c],
               generations'[b][g].thread = generations'[c][h].thread
        PROVE  b = c /\ g = h
    <3>1. CASE b \in Registered /\ c \in Registered
      BY <1>1, <2>2, <3>1 DEF GenerationsAgree
    <3>2. CASE b = a /\ c = a
      BY <1>1, <3>2
    <3>3. CASE b = a /\ c # a
      BY <1>1, <2>2, <3>3 DEF Unused, Row
    <3>4. CASE b # a /\ c = a
      BY <1>1, <2>2, <3>4 DEF Unused, Row
    <3>5. QED
      BY <1>1, <3>1, <3>2, <3>3, <3>4
  <2>3. QED
    BY <2>1, <2>2 DEF GenerationsAgree
<1>5. RowFollowsAgent'
  BY <1>1 DEF RowFollowsAgent, Current, Last, Record, Row
<1>6. QED
  BY <1>2, <1>3, <1>4, <1>5

LEMMA IntendStep ==
  ASSUME RegistryInvariant, NEW c \in Operator, NEW a \in Agent,
         NEW kind \in {"status", "replace", "adopt"}, NEW s \in Status \cup {Nothing},
         NEW t \in Thread \cup {Nothing}, NEW o \in Binding \cup {Nothing},
         Intend(c, kind, a, s, t, o),
         kind = "status" => s \in Status /\ MayBecome(a, s),
         kind = "replace" => t \in Thread /\ o \in Binding,
         kind = "adopt" => o \in Binding
  PROVE  RegistryInvariant'
<1> USE DEF RegistryInvariant
<1> DEFINE i == [kind |-> kind, agent |-> a, status |-> s, thread |-> t, owner |-> o,
                 generation |-> agents[a].generation, read |-> agents[a].status]
<1>1. /\ intent' = [intent EXCEPT ![c] = i]
      /\ a \in Registered
      /\ UNCHANGED <<agents, generations, raced>>
  BY DEF Intend
<1>2. agents[a].generation \in Nat \ {0} /\ agents[a].status \in Status
  BY <1>1 DEF RegistryTypeOK
<1>3. IntentOK(i)'
  BY <1>1, <1>2 DEF IntentOK, IntentType, MayBecome, Registered
<1>4. IntentsOK'
  <2>1. intent' \in [Operator -> IntentType \cup {Nothing}]
    BY <1>1, <1>3 DEF IntentsOK, IntentOK
  <2>2. ASSUME NEW d \in Operator, intent'[d] # Nothing
        PROVE  IntentOK(intent[d])'
    <3>1. CASE d = c
      BY <1>1, <1>3, <3>1 DEF IntentsOK
    <3>2. CASE d # c
      BY <1>1, <2>2, <3>2 DEF IntentsOK, IntentOK, Registered
    <3>3. QED
      BY <3>1, <3>2
  <2>3. QED
    BY <2>1, <2>2 DEF IntentsOK
<1>5. RegistryTypeOK'
  BY <1>1, <1>4 DEF RegistryTypeOK, IntentsOK, IntentOK, Registered
<1>6. GenerationsAgree'
  BY <1>1 DEF GenerationsAgree, Registered, Current
<1>7. RowFollowsAgent'
  BY <1>1 DEF RowFollowsAgent, Registered, Current
<1>8. QED
  BY <1>4, <1>5, <1>6, <1>7
LEMMA FailsStep ==
  ASSUME RegistryInvariant, NEW c \in Operator, Over(c), UNCHANGED <<agents, generations, raced>>
  PROVE  RegistryInvariant'
<1> USE DEF RegistryInvariant
<1>1. /\ intent' \in [Operator -> IntentType \cup {Nothing}]
      /\ \A d \in Operator : intent'[d] = Nothing \/ intent'[d] = intent[d]
  BY DEF IntentsOK, Over
<1>2. IntentsOK'
  BY <1>1 DEF IntentsOK, IntentOK, Registered
<1>3. RegistryTypeOK'
  BY <1>1 DEF RegistryTypeOK, Registered
<1>4. GenerationsAgree'
  BY DEF GenerationsAgree, Registered, Current
<1>5. RowFollowsAgent'
  BY DEF RowFollowsAgent, Registered, Current
<1>6. QED
  BY <1>2, <1>3, <1>4, <1>5

LEMMA WriteStatusStep ==
  ASSUME RegistryInvariant, NEW c \in Operator, WriteStatus(c)
  PROVE  RegistryInvariant'
<1> USE DEF RegistryInvariant
<1> DEFINE i == intent[c]
           a == intent[c].agent
           g == intent[c].generation
<1>1. /\ IntentOK(i) /\ i.kind = "status" /\ Over(c)
      /\ a \in Registered /\ i.status \in Status
      /\ agents' = [agents EXCEPT ![a].status = i.status]
  BY DEF WriteStatus, Intends, IntentsOK, IntentOK
<1>2. /\ g \in DOMAIN generations[a]
      /\ generations[a] \in Seq(RowType)
      /\ Len(generations[a]) = agents[a].generation
      /\ agents[a].generation \in Nat \ {0}
  <2>1. generations[a] \in Seq(RowType) /\ agents[a].generation \in Nat \ {0}
    BY <1>1 DEF RegistryTypeOK, RowType
  <2>2. g \in Nat \ {0} /\ g <= agents[a].generation
    BY <1>1 DEF IntentOK, IntentType
  <2>3. Len(generations[a]) = agents[a].generation
    BY <1>1 DEF GenerationsAgree
  <2>4. QED
    BY <2>1, <2>2, <2>3
<1>3. /\ Registered' = Registered /\ DOMAIN generations' = DOMAIN generations
      /\ \A b \in Registered : /\ agents'[b].thread = agents[b].thread
                               /\ agents'[b].generation = agents[b].generation
                               /\ agents'[b].owner = agents[b].owner
      /\ agents'[a].status = i.status
      /\ \A b \in Registered \ {a} : agents'[b] = agents[b] /\ generations'[b] = generations[b]
  BY <1>1 DEF WriteStatus, RegistryTypeOK, Registered
<1>4. /\ Len(generations'[a]) = Len(generations[a])
      /\ generations'[a] \in Seq(RowType)
      /\ \A h \in DOMAIN generations[a] :
           /\ generations'[a][h].thread = generations[a][h].thread
           /\ generations'[a][h].owner = generations[a][h].owner
           /\ generations'[a][h].status =
                IF i.status = "superseded" /\ h = g THEN "superseded" ELSE generations[a][h].status
  <2>1. CASE i.status = "superseded"
    <3>1. generations'[a] = [generations[a] EXCEPT ![g].status = "superseded"]
      BY <1>1, <2>1 DEF WriteStatus, RegistryTypeOK
    <3>2. generations[a][g] \in RowType
      BY <1>2
    <3> DEFINE row == [generations[a][g] EXCEPT !.status = "superseded"]
    <3>3. /\ row \in RowType /\ row.status = "superseded"
          /\ row.thread = generations[a][g].thread /\ row.owner = generations[a][g].owner
      BY <3>2 DEF RowType
    <3>4. generations'[a] = [generations[a] EXCEPT ![g] = row]
      BY <3>1
    <3> HIDE DEF row
    <3>5. /\ generations'[a] \in Seq(RowType) /\ Len(generations'[a]) = Len(generations[a])
          /\ \A h \in DOMAIN generations[a] :
               generations'[a][h] = IF h = g THEN row ELSE generations[a][h]
      BY <1>2, <3>3, <3>4, ElementReplaced
    <3>6. QED
      BY <2>1, <3>3, <3>5
  <2>2. CASE i.status # "superseded"
    BY <1>2, <2>2 DEF WriteStatus
  <2>3. QED
    BY <2>1, <2>2
<1>5. IntentsOK'
  <2>1. /\ intent' \in [Operator -> IntentType \cup {Nothing}]
        /\ \A d \in Operator : intent'[d] = Nothing \/ intent'[d] = intent[d]
    BY <1>1 DEF IntentsOK, Over
  <2>2. \A b \in Registered : agents'[b].generation \in Nat /\ agents[b].generation <= agents'[b].generation
    BY <1>3 DEF RegistryTypeOK
  <2>3. QED
    BY <1>3, <2>1, <2>2, IntentsStay
<1>6. RegistryTypeOK'
  <2>1. agents' \in [Registered' -> [thread : Thread, generation : Nat \ {0},
                                     status : Status, owner : Binding]]
    <3>1. [agents[a] EXCEPT !.status = i.status] \in
            [thread : Thread, generation : Nat \ {0}, status : Status, owner : Binding]
      BY <1>1 DEF RegistryTypeOK
    <3>2. QED
      BY <1>1, <1>3, <3>1 DEF RegistryTypeOK
  <2>2. generations' \in [Registered' -> Seq(RowType)]
    <3>1. \A b \in Registered : generations'[b] \in Seq(RowType)
      BY <1>3, <1>4 DEF RegistryTypeOK, RowType
    <3>2. QED
      BY <1>3, <3>1 DEF RegistryTypeOK, WriteStatus
  <2>3. raced' \subseteq Agent
    BY <1>1 DEF WriteStatus, RegistryTypeOK
  <2>4. \A d \in Operator : intent'[d] # Nothing => intent'[d].agent \in Registered'
    BY <1>5 DEF IntentsOK, IntentOK
  <2>5. QED
    BY <1>3, <2>1, <2>2, <2>3, <2>4 DEF RegistryTypeOK, RowType
<1>7. GenerationsAgree'
  <2>1. \A b \in Registered : Len(generations'[b]) = Len(generations[b])
    BY <1>3, <1>4
  <2>2. \A b \in Registered : DOMAIN generations'[b] = DOMAIN generations[b]
    BY <1>3, <1>4, <1>6, <2>1 DEF RegistryTypeOK
  <2>3. \A b \in Registered : \A h \in DOMAIN generations[b] :
          /\ generations'[b][h].thread = generations[b][h].thread
          /\ generations'[b][h].owner = generations[b][h].owner
          /\ generations[b][h].status = "superseded" => generations'[b][h].status = "superseded"
    BY <1>3, <1>4
  <2>4. ASSUME NEW b \in Registered
        PROVE  /\ generations'[b] # <<>>
               /\ agents'[b].thread = Current(b)'.thread
               /\ agents'[b].owner = Current(b)'.owner
    <3>1. generations[b] \in Seq(RowType) /\ generations[b] # <<>> /\ generations'[b] \in Seq(RowType)
      BY <1>3, <1>6 DEF GenerationsAgree, RegistryTypeOK, RowType
    <3>2. Len(generations[b]) \in DOMAIN generations[b]
      BY <3>1
    <3>3. QED
      BY <1>3, <2>1, <2>3, <3>1, <3>2 DEF GenerationsAgree, Current, Last
  <2>5. ASSUME NEW b \in Registered, NEW h \in 1 .. Len(generations'[b]) - 1
        PROVE  generations'[b][h].status = "superseded"
    <3>1. generations[b] \in Seq(RowType)
      BY DEF RegistryTypeOK, RowType
    <3>2. h \in 1 .. Len(generations[b]) - 1 /\ h \in DOMAIN generations[b]
      BY <2>1, <2>5, <3>1
    <3>3. QED
      BY <2>3, <3>2 DEF GenerationsAgree
  <2>6. QED
    BY <1>3, <2>1, <2>2, <2>3, <2>4, <2>5 DEF GenerationsAgree
<1>8. RowFollowsAgent'
  <2>1. ASSUME NEW b \in Registered, b \notin raced'
        PROVE  agents'[b].status = "superseded" <=> Current(b)'.status = "superseded"
    <3>1. CASE b # a
      BY <1>3, <2>1, <3>1 DEF RowFollowsAgent, WriteStatus, Current
    <3>2. CASE b = a
      <4>1. /\ agents[a].generation = g /\ agents[a].status = i.read
            /\ a \notin raced
        BY <2>1, <3>2 DEF WriteStatus
      <4>2. i.read = "superseded" => i.status = "superseded"
        BY <1>1 DEF IntentOK, Retired
      <4>3. agents[a].status = "superseded" <=> generations[a][g].status = "superseded"
        BY <1>1, <1>2, <4>1 DEF RowFollowsAgent, Current, Last
      <4>4. Len(generations'[a]) = g
        BY <1>2, <1>4, <4>1
      <4>5. Current(b)' = generations'[a][g]
        BY <3>2, <4>4 DEF Current, Last
      <4>6. generations'[a][g].status =
              IF i.status = "superseded" THEN "superseded" ELSE generations[a][g].status
        BY <1>2, <1>4
      <4>7. agents'[a].status = i.status
        BY <1>3
      <4>8. QED
        BY <3>2, <4>1, <4>2, <4>3, <4>5, <4>6, <4>7
    <3>3. QED
      BY <3>1, <3>2
  <2>2. QED
    BY <1>3, <2>1 DEF RowFollowsAgent
<1>9. QED
  BY <1>5, <1>6, <1>7, <1>8
LEMMA ReplaceStep ==
  ASSUME RegistryInvariant, NEW c \in Operator, Replace(c)
  PROVE  RegistryInvariant'
<1> USE DEF RegistryInvariant
<1>1. CASE ~(Expected(c) /\ Unused(intent[c].thread))
  BY <1>1, FailsStep DEF Replace, Fails
<1>2. CASE Expected(c) /\ Unused(intent[c].thread)
  <2>1. PICK a \in Registered, g \in Nat \ {0}, t \in Thread, o \in Binding :
          /\ a = intent[c].agent /\ g = intent[c].generation
          /\ t = intent[c].thread /\ o = intent[c].owner
    BY DEF Replace, Intends, IntentsOK, IntentOK, IntentType
  <2> DEFINE Old == [generations[a] EXCEPT ![g].status = "superseded"]
  <2>2. /\ agents[a].generation = g /\ Unused(t) /\ Over(c)
        /\ agents' = [agents EXCEPT ![a] = Record(t, g + 1, o)]
        /\ generations' = [generations EXCEPT ![a] = Append(Old, Row(t, o))]
        /\ raced' = raced \ {a}
    BY <1>2, <2>1 DEF Replace, Expected
  <2>3. generations[a] \in Seq(RowType) /\ Len(generations[a]) = g
    BY <2>2 DEF RegistryTypeOK, GenerationsAgree, RowType
  <2>4. /\ Old \in Seq(RowType) /\ Len(Old) = g
        /\ \A h \in 1 .. g : /\ Old[h].thread = generations[a][h].thread
                             /\ Old[h].status = IF h = g THEN "superseded" ELSE generations[a][h].status
    <3>1. generations[a][g] \in RowType
      BY <2>3
    <3>2. [generations[a][g] EXCEPT !.status = "superseded"] \in RowType
      BY <3>1 DEF RowType
    <3>3. Old \in Seq(RowType) /\ Len(Old) = g
      BY <2>3, <3>2
    <3>4. \A h \in 1 .. g : Old[h] = IF h = g THEN [generations[a][g] EXCEPT !.status = "superseded"]
                                     ELSE generations[a][h]
      BY <2>3
    <3>5. QED
      BY <3>1, <3>3, <3>4 DEF RowType
  <2>5. Row(t, o) \in RowType
    BY DEF Row, RowType
  <2>6. /\ generations'[a] = Append(Old, Row(t, o))
        /\ agents'[a] = Record(t, g + 1, o)
        /\ Registered' = Registered /\ DOMAIN generations' = Registered
        /\ \A b \in Registered \ {a} : agents'[b] = agents[b] /\ generations'[b] = generations[b]
    BY <2>2 DEF RegistryTypeOK, Registered
  <2>7. /\ generations'[a] \in Seq(RowType) /\ Len(generations'[a]) = g + 1
        /\ generations'[a][g + 1] = Row(t, o)
        /\ \A h \in 1 .. g : generations'[a][h] = Old[h]
    BY <2>4, <2>5, <2>6
  <2>8. RegistryTypeOK' /\ IntentsOK'
    <3>1. \A b \in Registered : agents'[b] \in [thread : Thread, generation : Nat \ {0},
                                                status : Status, owner : Binding]
      <4>1. Record(t, g + 1, o) \in [thread : Thread, generation : Nat \ {0},
                                     status : Status, owner : Binding]
        BY DEF Record, Status
      <4>2. QED
        BY <2>6, <4>1 DEF RegistryTypeOK
    <3>2. \A b \in Registered : generations'[b] \in Seq(RowType)
      BY <2>6, <2>7 DEF RegistryTypeOK, RowType
    <3>3. /\ intent' \in [Operator -> IntentType \cup {Nothing}]
          /\ \A d \in Operator : intent'[d] = Nothing \/ intent'[d] = intent[d]
      BY <2>2 DEF IntentsOK, Over
    <3>4. \A b \in Registered : /\ agents'[b].generation \in Nat
                                /\ agents[b].generation <= agents'[b].generation
      BY <2>2, <2>6 DEF RegistryTypeOK, Record
    <3>5. IntentsOK'
      BY <2>6, <3>3, <3>4, IntentsStay
    <3>6. \A d \in Operator : intent'[d] # Nothing => intent'[d].agent \in Registered'
      BY <3>5 DEF IntentsOK, IntentOK
    <3>7. /\ agents' \in [Registered -> [thread : Thread, generation : Nat \ {0},
                                         status : Status, owner : Binding]]
          /\ generations' \in [Registered -> Seq(RowType)]
      BY <2>2, <3>1, <3>2 DEF RegistryTypeOK, RowType
    <3>8. raced' \subseteq Agent
      BY <2>2 DEF RegistryTypeOK
    <3>9. QED
      BY <2>6, <3>5, <3>6, <3>7, <3>8 DEF RegistryTypeOK, RowType
  <2>9. GenerationsAgree'
    <3>1. ASSUME NEW b \in Registered
          PROVE  /\ agents'[b].generation = Len(generations'[b])
                 /\ generations'[b] # <<>>
                 /\ agents'[b].thread = Current(b)'.thread
                 /\ agents'[b].owner = Current(b)'.owner
                 /\ \A h \in 1 .. Len(generations'[b]) - 1 : generations'[b][h].status = "superseded"
      <4>1. CASE b = a
        <5>1. Current(b)' = Row(t, o)
          BY <2>7, <4>1 DEF Current, Last
        <5>2. \A h \in 1 .. g : Old[h].status = "superseded"
          BY <2>2, <2>3, <2>4 DEF GenerationsAgree
        <5>3. \A h \in 1 .. Len(generations'[b]) - 1 : generations'[b][h].status = "superseded"
          <6>1. Len(generations'[b]) - 1 = g
            BY <2>7, <4>1
          <6>2. QED
            BY <2>7, <4>1, <5>2, <6>1
        <5>4. generations'[b] # <<>> /\ agents'[b].generation = Len(generations'[b])
          BY <2>6, <2>7, <4>1 DEF Record
        <5>5. agents'[b].thread = t /\ agents'[b].owner = o
          BY <2>6, <4>1 DEF Record
        <5>6. Current(b)'.thread = t /\ Current(b)'.owner = o
          BY <5>1 DEF Row
        <5>7. QED
          BY <5>3, <5>4, <5>5, <5>6
      <4>2. CASE b # a
        <5>1. agents'[b] = agents[b] /\ generations'[b] = generations[b]
          BY <2>6, <4>2
        <5>2. Current(b)' = Current(b)
          BY <5>1 DEF Current
        <5>3. /\ agents[b].generation = Len(generations[b])
              /\ generations[b] # <<>>
              /\ agents[b].thread = Current(b).thread
              /\ agents[b].owner = Current(b).owner
              /\ \A h \in 1 .. Len(generations[b]) - 1 : generations[b][h].status = "superseded"
          BY DEF GenerationsAgree
        <5>4. QED
          BY <5>1, <5>2, <5>3
      <4>3. QED
        BY <4>1, <4>2
    <3>2. \A h \in DOMAIN generations'[a] :
            \/ h = g + 1 /\ generations'[a][h].thread = t
            \/ h \in DOMAIN generations[a] /\ generations'[a][h].thread = generations[a][h].thread
      <4>1. DOMAIN generations'[a] = 1 .. g + 1 /\ DOMAIN generations[a] = 1 .. g
        BY <2>3, <2>7
      <4>2. generations'[a][g + 1].thread = t
        BY <2>7 DEF Row
      <4>3. \A h \in 1 .. g : generations'[a][h].thread = generations[a][h].thread
        BY <2>4, <2>7
      <4>4. \A h \in 1 .. g + 1 : h = g + 1 \/ h \in 1 .. g
        OBVIOUS
      <4>5. QED
        BY <4>1, <4>2, <4>3, <4>4
    <3>3. \A b \in Registered : \A h \in DOMAIN generations[b] : generations[b][h].thread # t
      BY <2>2 DEF Unused
    <3>4. ASSUME NEW b \in Registered, NEW d \in Registered,
                 NEW h \in DOMAIN generations'[b], NEW j \in DOMAIN generations'[d],
                 generations'[b][h].thread = generations'[d][j].thread
          PROVE  b = d /\ h = j
      <4>1. CASE b = a /\ d = a
        BY <3>2, <3>3, <3>4, <4>1 DEF GenerationsAgree
      <4>2. ASSUME NEW e \in Registered \ {a}, NEW k \in DOMAIN generations[e],
                   NEW l \in DOMAIN generations'[a]
            PROVE  generations'[a][l].thread # generations[e][k].thread
        BY <3>2, <3>3 DEF GenerationsAgree
      <4>3. CASE (b = a /\ d # a) \/ (b # a /\ d = a)
        <5>1. CASE b = a /\ d # a
          <6>1. generations'[d] = generations[d]
            BY <2>6, <5>1
          <6>2. generations'[a][h].thread # generations[d][j].thread
            BY <3>4, <4>2, <5>1, <6>1
          <6>3. QED
            BY <3>4, <5>1, <6>1, <6>2
        <5>2. CASE b # a /\ d = a
          <6>1. generations'[b] = generations[b]
            BY <2>6, <5>2
          <6>2. generations'[a][j].thread # generations[b][h].thread
            BY <3>4, <4>2, <5>2, <6>1
          <6>3. QED
            BY <3>4, <5>2, <6>1, <6>2
        <5>3. QED
          BY <4>3, <5>1, <5>2
      <4>4. CASE b # a /\ d # a
        BY <2>6, <3>4, <4>4 DEF GenerationsAgree
      <4>5. QED
        BY <4>1, <4>2, <4>3, <4>4
    <3>5. QED
      BY <2>6, <3>1, <3>4 DEF GenerationsAgree
  <2>10. RowFollowsAgent'
    <3>1. ASSUME NEW b \in Registered, b \notin raced'
          PROVE  agents'[b].status = "superseded" <=> Current(b)'.status = "superseded"
      <4>1. CASE b = a
        BY <2>6, <2>7, <4>1 DEF Current, Last, Record, Row
      <4>2. CASE b # a
        BY <2>2, <2>6, <3>1, <4>2 DEF RowFollowsAgent, Current
      <4>3. QED
        BY <4>1, <4>2
    <3>2. QED
      BY <2>6, <3>1 DEF RowFollowsAgent
  <2>11. QED
    BY <2>8, <2>9, <2>10
<1>3. QED
  BY <1>1, <1>2
LEMMA AdoptOwnerStep ==
  ASSUME RegistryInvariant, NEW c \in Operator, AdoptOwner(c)
  PROVE  RegistryInvariant'
<1> USE DEF RegistryInvariant
<1>1. PICK a \in Registered, o \in Binding : a = intent[c].agent /\ o = intent[c].owner
  BY DEF AdoptOwner, Intends, IntentsOK, IntentOK
<1>2. CASE ~(Expected(c) /\ agents[a].status = "active" /\ Current(a).status = "active")
  BY <1>1, <1>2, FailsStep DEF AdoptOwner, Fails
<1>3. CASE Expected(c) /\ agents[a].status = "active" /\ Current(a).status = "active"
  <2> DEFINE g == agents[a].generation
  <2>1. /\ agents' = [agents EXCEPT ![a].owner = o]
        /\ generations' = [generations EXCEPT ![a][g].owner = o]
        /\ Over(c) /\ raced' = raced
    BY <1>1, <1>3 DEF AdoptOwner
  <2>2. /\ generations[a] \in Seq(RowType) /\ Len(generations[a]) = g /\ g \in Nat \ {0}
        /\ generations[a][g] \in RowType
    <3>1. generations[a] \in Seq(RowType) /\ Len(generations[a]) = g /\ g \in Nat \ {0}
      BY DEF RegistryTypeOK, GenerationsAgree, RowType
    <3>2. QED
      BY <3>1
  <2>3. /\ agents'[a] = [agents[a] EXCEPT !.owner = o]
        /\ generations'[a] = [generations[a] EXCEPT ![g].owner = o]
        /\ Registered' = Registered /\ DOMAIN generations' = Registered
        /\ \A b \in Registered \ {a} : agents'[b] = agents[b] /\ generations'[b] = generations[b]
    BY <2>1 DEF RegistryTypeOK, Registered
  <2>4. agents[a] \in [thread : Thread, generation : Nat \ {0}, status : Status, owner : Binding]
    BY DEF RegistryTypeOK
  <2>5. /\ agents'[a] \in [thread : Thread, generation : Nat \ {0},
                           status : Status, owner : Binding]
        /\ agents'[a].generation = g /\ agents'[a].owner = o
        /\ agents'[a].thread = agents[a].thread /\ agents'[a].status = agents[a].status
    BY <2>3, <2>4
  <2>6. /\ generations'[a] \in Seq(RowType) /\ Len(generations'[a]) = g
        /\ generations'[a][g].owner = o
        /\ \A h \in 1 .. g : /\ generations'[a][h].thread = generations[a][h].thread
                             /\ generations'[a][h].status = generations[a][h].status
    <3>1. [generations[a][g] EXCEPT !.owner = o] \in RowType
      BY <2>2 DEF RowType
    <3>2. generations'[a] \in Seq(RowType) /\ Len(generations'[a]) = g
      BY <2>2, <2>3, <3>1
    <3>3. \A h \in 1 .. g : generations'[a][h] = IF h = g THEN [generations[a][g] EXCEPT !.owner = o]
                                                 ELSE generations[a][h]
      BY <2>2, <2>3
    <3>4. QED
      BY <2>2, <3>2, <3>3 DEF RowType
  <2>7. RegistryTypeOK' /\ IntentsOK'
    <3>1. /\ \A b \in Registered : agents'[b] \in [thread : Thread, generation : Nat \ {0},
                                                   status : Status, owner : Binding]
          /\ \A b \in Registered : generations'[b] \in Seq(RowType)
      BY <2>3, <2>5, <2>6 DEF RegistryTypeOK, RowType
    <3>2. /\ intent' \in [Operator -> IntentType \cup {Nothing}]
          /\ \A d \in Operator : intent'[d] = Nothing \/ intent'[d] = intent[d]
      BY <2>1 DEF IntentsOK, Over
    <3>3. \A b \in Registered : /\ agents'[b].generation \in Nat
                                /\ agents[b].generation <= agents'[b].generation
      <4>1. \A b \in Registered : agents[b].generation \in Nat
        BY DEF RegistryTypeOK
      <4>2. \A b \in Registered : agents'[b].generation = agents[b].generation
        BY <2>3, <2>5
      <4>3. QED
        BY <4>1, <4>2
    <3>4. IntentsOK'
      BY <2>3, <3>2, <3>3, IntentsStay
    <3>5. \A d \in Operator : intent'[d] # Nothing => intent'[d].agent \in Registered'
      BY <3>4 DEF IntentsOK, IntentOK
    <3>6. /\ agents' \in [Registered -> [thread : Thread, generation : Nat \ {0},
                                         status : Status, owner : Binding]]
          /\ generations' \in [Registered -> Seq(RowType)]
      BY <2>1, <3>1 DEF RegistryTypeOK, RowType
    <3>7. QED
      BY <2>1, <2>3, <3>4, <3>5, <3>6 DEF RegistryTypeOK, RowType
  <2>8. GenerationsAgree'
    <3>1. /\ DOMAIN generations'[a] = 1 .. g /\ DOMAIN generations[a] = 1 .. g
          /\ g \in 1 .. g /\ generations'[a] # <<>>
      BY <2>2, <2>6
    <3>2. Current(a)'.owner = o /\ Current(a)'.thread = agents[a].thread
      <4>1. Current(a)' = generations'[a][g] /\ Current(a) = generations[a][g]
        BY <2>2, <2>6 DEF Current, Last
      <4>2. QED
        BY <2>6, <3>1, <4>1 DEF GenerationsAgree
    <3>3. \A h \in 1 .. g - 1 : generations'[a][h].status = "superseded"
      BY <2>2, <2>6 DEF GenerationsAgree
    <3>4. ASSUME NEW b \in Registered
          PROVE  /\ agents'[b].generation = Len(generations'[b])
                 /\ generations'[b] # <<>>
                 /\ agents'[b].thread = Current(b)'.thread
                 /\ agents'[b].owner = Current(b)'.owner
                 /\ \A h \in 1 .. Len(generations'[b]) - 1 : generations'[b][h].status = "superseded"
      <4>1. CASE b = a
        BY <2>5, <2>6, <3>1, <3>2, <3>3, <4>1
      <4>2. CASE b # a
        BY <2>3, <4>2 DEF GenerationsAgree, Current
      <4>3. QED
        BY <4>1, <4>2
    <3>5. \A b \in Registered : /\ DOMAIN generations'[b] = DOMAIN generations[b]
                                /\ \A h \in DOMAIN generations[b] :
                                     generations'[b][h].thread = generations[b][h].thread
      BY <2>3, <2>6, <3>1
    <3>6. QED
      BY <2>3, <3>4, <3>5 DEF GenerationsAgree
  <2>9. RowFollowsAgent'
    <3>1. ASSUME NEW b \in Registered, b \notin raced
          PROVE  agents'[b].status = "superseded" <=> Current(b)'.status = "superseded"
      <4>1. CASE b = a
        <5>1. Current(b)' = generations'[a][g] /\ Current(b) = generations[a][g]
          BY <2>2, <2>6, <4>1 DEF Current, Last
        <5>2. QED
          BY <2>2, <2>5, <2>6, <3>1, <4>1, <5>1 DEF RowFollowsAgent
      <4>2. CASE b # a
        BY <2>3, <3>1, <4>2 DEF RowFollowsAgent, Current
      <4>3. QED
        BY <4>1, <4>2
    <3>2. QED
      BY <2>1, <2>3, <3>1 DEF RowFollowsAgent
  <2>10. QED
    BY <2>7, <2>8, <2>9
<1>4. QED
  BY <1>2, <1>3

LEMMA RegistryStep == RegistryInvariant /\ RegistryNext => RegistryInvariant'
<1> SUFFICES ASSUME RegistryInvariant, RegistryNext PROVE RegistryInvariant'
  OBVIOUS
<1>1. CASE \E a \in Administered, t \in Thread, o \in Binding : Register(a, t, o)
  BY <1>1, RegisterStep, RegistryAssumption
<1>2. ASSUME NEW c \in Operator, NEW a \in Administered, NEW s \in Status, ReadStatus(c, a, s)
      PROVE  RegistryInvariant'
  BY <1>2, IntendStep, RegistryAssumption DEF ReadStatus
<1>3. ASSUME NEW c \in Operator, NEW a \in Administered, NEW t \in Thread, NEW o \in Binding,
             ReadReplaced(c, a, t, o)
      PROVE  RegistryInvariant'
  BY <1>3, IntendStep, RegistryAssumption DEF ReadReplaced
<1>4. ASSUME NEW c \in Operator, NEW a \in Administered, NEW o \in Binding, ReadAdopted(c, a, o)
      PROVE  RegistryInvariant'
  BY <1>4, IntendStep, RegistryAssumption DEF ReadAdopted
<1>5. ASSUME NEW c \in Operator, WriteStatus(c) \/ Replace(c) \/ AdoptOwner(c) \/ GivesUp(c)
      PROVE  RegistryInvariant'
  BY <1>5, WriteStatusStep, ReplaceStep, AdoptOwnerStep, FailsStep DEF GivesUp, Fails
<1>6. QED
  BY <1>1, <1>2, <1>3, <1>4, <1>5 DEF RegistryNext

\* The invariant of the registry holds whatever commands of operators race.
THEOREM RegistryInvariantCorrect == RegistrySpec => []RegistryInvariant
<1>1. RegistryInvariant /\ [RegistryNext]_registryVars => RegistryInvariant'
  BY RegistryStep, RegistryStutters DEF registryVars, registered
<1>2. QED
  BY <1>1, RegistryStarts, PTL DEF RegistrySpec

\* Every variable of the registry keeps its type.
THEOREM RegistryTypeCorrect == RegistrySpec => []RegistryTypeOK
BY RegistryInvariantCorrect, PTL DEF RegistryInvariant

\* The record of an agent and its generations never disagree, and a thread never
\* serves two generations: replace and adopt-owner against each other.
THEOREM TablesAgree == RegistrySpec => []GenerationsAgree
BY RegistryInvariantCorrect, PTL DEF RegistryInvariant

\* The status of an agent and of its latest generation follow each other, but for
\* a setStatus that wrote over a change it had not seen.
THEOREM StatusAgrees == RegistrySpec => []RowFollowsAgent
BY RegistryInvariantCorrect, PTL DEF RegistryInvariant
=============================================================================
