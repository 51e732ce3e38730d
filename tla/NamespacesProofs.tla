-------------------------- MODULE NamespacesProofs --------------------------
(***************************************************************************)
(* Theorems of Namespaces.  What a run of the tool does to a database is   *)
(* derived once, for any injective renaming of its names (Renames), and    *)
(* what the manifest has to be for its renaming to be one.                 *)
(***************************************************************************)
EXTENDS Namespaces, FiniteSetTheorems, TLAPS

Message == [from : Name, to : Name \cup {Nobody}, conversation : ConversationIDs,
            request : RequestIDs \cup {Injected}]
Conversation == [names : SUBSET Name, array : BOOLEAN]
DeliveryRow == [target : Name, seq : Nat]

\* The tables.
Tables(d) ==
  /\ d = [agents |-> d.agents, messages |-> d.messages,
          conversations |-> d.conversations, deliveries |-> d.deliveries,
          cursors |-> d.cursors, idempotency |-> d.idempotency,
          nextMessageID |-> d.nextMessageID]
  /\ d.nextMessageID \in Nat
  /\ d.agents \subseteq Name
  /\ d.messages \in [DOMAIN d.messages -> Message]
  /\ d.conversations \in [DOMAIN d.conversations -> Conversation]
  /\ d.deliveries \in [DOMAIN d.deliveries -> DeliveryRow]
  /\ d.cursors \in [DOMAIN d.cursors -> Nat]
  /\ d.idempotency \in [DOMAIN d.idempotency -> 1..d.nextMessageID]
  /\ DOMAIN d.messages \cup DOMAIN d.deliveries \subseteq 1..d.nextMessageID
  /\ DOMAIN d.cursors \subseteq Name
  /\ DOMAIN d.idempotency \subseteq Name \X Name \X RequestIDs

(* What ReferencesAgree rests on: every delivery is below the cursor of    *)
(* its target, and the message of an agent has a target and a conversation.*)
Agreement(d) ==
  /\ \A i \in DOMAIN d.messages : d.messages[i].to # Nobody =>
       i \in DOMAIN d.deliveries /\ d.deliveries[i].target = d.messages[i].to
  /\ \A i \in DOMAIN d.deliveries :
       /\ d.deliveries[i].target \in DOMAIN d.cursors
       /\ d.deliveries[i].seq < d.cursors[d.deliveries[i].target]
  /\ \A i \in DOMAIN d.messages : d.messages[i].request # Injected =>
       /\ d.messages[i].to # Nobody
       /\ d.messages[i].conversation \in DOMAIN d.conversations
       /\ {d.messages[i].from, d.messages[i].to}
            \subseteq d.conversations[d.messages[i].conversation].names
  /\ \A i, j \in DOMAIN d.deliveries : d.deliveries[i] = d.deliveries[j] => i = j
  /\ \A key \in DOMAIN d.idempotency :
       d.idempotency[key] \in DOMAIN d.messages =>
         key = <<d.messages[d.idempotency[key]].from,
                 d.messages[d.idempotency[key]].to,
                 d.messages[d.idempotency[key]].request>>

Joins(a, b) == {"personal", "ucla"} \subseteq {ScopeOfName(a), ScopeOfName(b)}

Apart(d) ==
  \A i \in DOMAIN d.messages :
    d.messages[i].request # Injected => ~Joins(d.messages[i].from, d.messages[i].to)

Servers == {"stopped", "compat", "strict"}

Parsed(m) == m \subseteq ManifestRow /\ ParseManifest(m)

\* The last run can be followed from the database it found.
Followed ==
  \/ undo = NoRun
  \/ /\ undo = [before |-> undo.before, manifest |-> undo.manifest]
     /\ Parsed(undo.manifest)
     /\ Tables(undo.before)
     /\ Accepts(undo.manifest, undo.before)
     /\ db = applyPlan(Renaming(undo.manifest, undo.before), undo.before)

NamespacesInv ==
  /\ server \in Servers
  /\ legacyScope \in {"personal", "ucla"} /\ authority \in Authorities
  /\ Parsed(manifest)
  /\ Tables(db) /\ IsFiniteSet(Identities(db))
  /\ Agreement(db) /\ Apart(db)
  /\ Followed


(***************************************************************************)
(* Renaming                                                                *)
(***************************************************************************)

(* A renaming of the names S merges nothing and loses nothing.             *)
Renames(to, S) ==
  /\ to \in [S \cup {Nobody} -> Name \cup {Nobody}]
  /\ to[Nobody] = Nobody
  /\ \A n \in S : to[n] # Nobody
  /\ \A n, k \in S \cup {Nobody} : to[n] = to[k] => n = k

\* f is a function.
IsTable(f) == f = [k \in DOMAIN f |-> f[k]]

RenamedKey(to, k) == <<to[k[1]], to[k[2]], k[3]>>

\* e is the database d with its names renamed.
Renamed(to, d, e) ==
  /\ e = [agents |-> e.agents, messages |-> e.messages,
          conversations |-> e.conversations, deliveries |-> e.deliveries,
          cursors |-> e.cursors, idempotency |-> e.idempotency,
          nextMessageID |-> d.nextMessageID]
  /\ IsTable(e.messages) /\ IsTable(e.conversations) /\ IsTable(e.deliveries)
  /\ IsTable(e.cursors) /\ IsTable(e.idempotency)
  /\ e.agents = {to[a] : a \in d.agents}
  /\ DOMAIN e.messages = DOMAIN d.messages
  /\ \A i \in DOMAIN d.messages : e.messages[i] =
       [from |-> to[d.messages[i].from], to |-> to[d.messages[i].to],
        conversation |-> d.messages[i].conversation, request |-> d.messages[i].request]
  /\ DOMAIN e.conversations = DOMAIN d.conversations
  /\ \A c \in DOMAIN d.conversations : e.conversations[c] =
       [names |-> {to[n] : n \in d.conversations[c].names},
        array |-> d.conversations[c].array]
  /\ DOMAIN e.deliveries = DOMAIN d.deliveries
  /\ \A i \in DOMAIN d.deliveries : e.deliveries[i] =
       [target |-> to[d.deliveries[i].target], seq |-> d.deliveries[i].seq]
  /\ DOMAIN e.cursors = {to[a] : a \in DOMAIN d.cursors}
  /\ \A a \in DOMAIN d.cursors : e.cursors[to[a]] = d.cursors[a]
  /\ DOMAIN e.idempotency = {RenamedKey(to, k) : k \in DOMAIN d.idempotency}
  /\ \A k \in DOMAIN d.idempotency :
       e.idempotency[RenamedKey(to, k)] = d.idempotency[k]

\* Where a name occurs.
Occurs(n, d) ==
  \/ n \in d.agents \cup DOMAIN d.cursors
  \/ \E c \in DOMAIN d.conversations : n \in d.conversations[c].names
  \/ \E i \in DOMAIN d.messages : n \in {d.messages[i].from, d.messages[i].to}
  \/ \E i \in DOMAIN d.deliveries : n = d.deliveries[i].target
  \/ \E k \in DOMAIN d.idempotency : n \in {k[1], k[2]}

LEMMA IdentitiesOccur ==
  ASSUME NEW d, NEW n
  PROVE  n \in Identities(d) <=> n # Nobody /\ Occurs(n, d)
<1> DEFINE C == UNION {d.conversations[c].names : c \in DOMAIN d.conversations}
           M == UNION {{d.messages[i].from, d.messages[i].to} : i \in DOMAIN d.messages}
           D == {d.deliveries[i].target : i \in DOMAIN d.deliveries}
           K == UNION {{k[1], k[2]} : k \in DOMAIN d.idempotency}
<1>1. Identities(d) = (d.agents \cup DOMAIN d.cursors \cup C \cup M \cup D \cup K) \ {Nobody}
  BY DEF Identities
<1>2. n \in C <=> \E c \in DOMAIN d.conversations : n \in d.conversations[c].names
  OBVIOUS
<1>3. n \in M <=> \E i \in DOMAIN d.messages :
                    n \in {d.messages[i].from, d.messages[i].to}
  OBVIOUS
<1>4. n \in D <=> \E i \in DOMAIN d.deliveries : n = d.deliveries[i].target
  OBVIOUS
<1>5. n \in K <=> \E k \in DOMAIN d.idempotency : n \in {k[1], k[2]}
  OBVIOUS
<1> HIDE DEF C, M, D, K
<1> QED
  BY <1>1, <1>2, <1>3, <1>4, <1>5 DEF Occurs

\* Every name of a database is one of its identities.
LEMMA NamesOf ==
  ASSUME NEW d, Tables(d)
  PROVE  /\ Identities(d) \subseteq Name /\ Nobody \notin Identities(d)
         /\ d.agents \subseteq Identities(d)
         /\ DOMAIN d.cursors \subseteq Identities(d)
         /\ \A c \in DOMAIN d.conversations :
              d.conversations[c].names \subseteq Identities(d)
         /\ \A i \in DOMAIN d.messages :
              /\ d.messages[i].from \in Identities(d)
              /\ d.messages[i].to \in Identities(d) \cup {Nobody}
         /\ \A i \in DOMAIN d.deliveries : d.deliveries[i].target \in Identities(d)
         /\ \A k \in DOMAIN d.idempotency :
              k[1] \in Identities(d) /\ k[2] \in Identities(d)
<1>1. /\ d.agents \subseteq Name /\ DOMAIN d.cursors \subseteq Name
      /\ Nobody \notin Name
  BY DEF Tables, Name
<1>2. \A c \in DOMAIN d.conversations : d.conversations[c].names \subseteq Name
  BY DEF Tables, Conversation
<1>3. \A i \in DOMAIN d.messages :
        d.messages[i].from \in Name /\ d.messages[i].to \in Name \cup {Nobody}
  BY DEF Tables, Message
<1>4. \A i \in DOMAIN d.deliveries : d.deliveries[i].target \in Name
  BY DEF Tables, DeliveryRow
<1>5. \A k \in DOMAIN d.idempotency : k[1] \in Name /\ k[2] \in Name
  BY DEF Tables
<1>6. Identities(d) \subseteq Name
  BY <1>1, <1>2, <1>3, <1>4, <1>5, IdentitiesOccur DEF Occurs
<1>7. d.agents \cup DOMAIN d.cursors \subseteq Identities(d)
  BY <1>1, IdentitiesOccur DEF Occurs
<1>8. \A c \in DOMAIN d.conversations :
        d.conversations[c].names \subseteq Identities(d)
  BY <1>1, <1>2, IdentitiesOccur DEF Occurs
<1>9. \A i \in DOMAIN d.messages :
        /\ d.messages[i].from \in Identities(d)
        /\ d.messages[i].to \in Identities(d) \cup {Nobody}
  BY <1>1, <1>3, IdentitiesOccur DEF Occurs
<1>10. \A i \in DOMAIN d.deliveries : d.deliveries[i].target \in Identities(d)
  BY <1>1, <1>4, IdentitiesOccur DEF Occurs
<1>11. \A k \in DOMAIN d.idempotency :
        k[1] \in Identities(d) /\ k[2] \in Identities(d)
  BY <1>1, <1>5, IdentitiesOccur DEF Occurs
<1> QED
  BY <1>1, <1>6, <1>7, <1>8, <1>9, <1>10, <1>11

Distinct(to, S) == \A j, k \in S : to[j] = to[k] => j = k

\* g is the table f with its keys renamed.
Rekeyed(f, to, g) ==
  /\ DOMAIN g = {to[j] : j \in DOMAIN f}
  /\ \A j \in DOMAIN f : g[to[j]] = f[j]

\* A table with its keys renamed, if no two keys become one.
LEMMA KeyedTable ==
  ASSUME NEW f, NEW to, Distinct(to, DOMAIN f)
  PROVE  Rekeyed(f, to, Keyed(f, to))
<1>1. DOMAIN Keyed(f, to) = {to[j] : j \in DOMAIN f}
  BY DEF Keyed
<1>2. ASSUME NEW j \in DOMAIN f
      PROVE  Keyed(f, to)[to[j]] = f[j]
  <2> DEFINE c == CHOOSE k \in DOMAIN f : to[k] = to[j]
  <2>1. c \in DOMAIN f /\ to[c] = to[j]
    OBVIOUS
  <2>2. c = j
    BY <2>1 DEF Distinct
  <2>3. Keyed(f, to)[to[j]] = f[c]
    BY DEF Keyed
  <2> QED
    BY <2>2, <2>3
<1> QED
  BY <1>1, <1>2 DEF Rekeyed

\* applyPlan renames.
LEMMA ApplyPlanRenames ==
  ASSUME NEW d, Tables(d), NEW to, Renames(to, Identities(d))
  PROVE  Renamed(to, d, applyPlan(to, d))
<1> DEFINE e == applyPlan(to, d)
           keys == RenamedKeys(to, DOMAIN d.idempotency)
<1>1. /\ e = [agents |-> e.agents, messages |-> e.messages,
              conversations |-> e.conversations, deliveries |-> e.deliveries,
              cursors |-> e.cursors, idempotency |-> e.idempotency,
              nextMessageID |-> d.nextMessageID]
      /\ e.agents = {to[a] : a \in d.agents}
  BY DEF applyPlan
<1>2. /\ DOMAIN e.messages = DOMAIN d.messages
      /\ \A i \in DOMAIN d.messages : e.messages[i] =
           [from |-> to[d.messages[i].from], to |-> to[d.messages[i].to],
            conversation |-> d.messages[i].conversation,
            request |-> d.messages[i].request]
  <2>1. e.messages = [i \in DOMAIN d.messages |->
                        [d.messages[i] EXCEPT !.from = to[@], !.to = to[@]]]
    BY DEF applyPlan
  <2>2. \A i \in DOMAIN d.messages : d.messages[i] \in Message
    BY DEF Tables
  <2> HIDE DEF e
  <2> QED
    BY <2>1, <2>2 DEF Message
<1>3. /\ DOMAIN e.conversations = DOMAIN d.conversations
      /\ \A c \in DOMAIN d.conversations : e.conversations[c] =
           [names |-> {to[n] : n \in d.conversations[c].names},
            array |-> d.conversations[c].array]
  <2>1. e.conversations = [c \in DOMAIN d.conversations |->
                        [d.conversations[c] EXCEPT !.names = {to[n] : n \in @}]]
    BY DEF applyPlan
  <2>2. \A c \in DOMAIN d.conversations : d.conversations[c] \in Conversation
    BY DEF Tables
  <2> HIDE DEF e
  <2> QED
    BY <2>1, <2>2 DEF Conversation
<1>4. /\ DOMAIN e.deliveries = DOMAIN d.deliveries
      /\ \A i \in DOMAIN d.deliveries : e.deliveries[i] =
           [target |-> to[d.deliveries[i].target], seq |-> d.deliveries[i].seq]
  <2>1. e.deliveries = [i \in DOMAIN d.deliveries |->
                          [d.deliveries[i] EXCEPT !.target = to[@]]]
    BY DEF applyPlan
  <2>2. \A i \in DOMAIN d.deliveries : d.deliveries[i] \in DeliveryRow
    BY DEF Tables
  <2> HIDE DEF e
  <2> QED
    BY <2>1, <2>2 DEF DeliveryRow
<1>5. /\ DOMAIN e.cursors = {to[a] : a \in DOMAIN d.cursors}
      /\ \A a \in DOMAIN d.cursors : e.cursors[to[a]] = d.cursors[a]
  <2>1. e.cursors = Keyed(d.cursors, to)
    BY DEF applyPlan
  <2>2. Distinct(to, DOMAIN d.cursors)
    BY NamesOf DEF Renames, Distinct
  <2> HIDE DEF e
  <2>3. Rekeyed(d.cursors, to, Keyed(d.cursors, to))
    BY <2>2, KeyedTable
  <2> QED
    BY <2>1, <2>3 DEF Rekeyed
<1>6. /\ DOMAIN keys = DOMAIN d.idempotency
      /\ \A k \in DOMAIN d.idempotency : keys[k] = RenamedKey(to, k)
  BY DEF RenamedKeys, RenamedKey
<1>7. \A j, k \in DOMAIN d.idempotency : RenamedKey(to, j) = RenamedKey(to, k) => j = k
  <2> TAKE j, k \in DOMAIN d.idempotency
  <2> HAVE RenamedKey(to, j) = RenamedKey(to, k)
  <2>1. to[j[1]] = to[k[1]] /\ to[j[2]] = to[k[2]] /\ j[3] = k[3]
    BY DEF RenamedKey
  <2>2. j[1] = k[1] /\ j[2] = k[2]
    BY <2>1, NamesOf DEF Renames
  <2>3. j \in Name \X Name \X RequestIDs /\ k \in Name \X Name \X RequestIDs
    BY DEF Tables
  <2> QED
    BY <2>1, <2>2, <2>3
<1>8. e.idempotency = Keyed(d.idempotency, keys)
  BY DEF applyPlan
<1> HIDE DEF keys, e
<1>9. /\ DOMAIN e.idempotency = {RenamedKey(to, k) : k \in DOMAIN d.idempotency}
      /\ \A k \in DOMAIN d.idempotency :
           e.idempotency[RenamedKey(to, k)] = d.idempotency[k]
  <2>1. Distinct(keys, DOMAIN d.idempotency)
    BY <1>6, <1>7 DEF Distinct
  <2>2. Rekeyed(d.idempotency, keys, Keyed(d.idempotency, keys))
    BY <2>1, KeyedTable
  <2> QED
    BY <1>6, <1>8, <2>2 DEF Rekeyed
<1>10. /\ IsTable(e.messages) /\ IsTable(e.conversations) /\ IsTable(e.deliveries)
       /\ IsTable(e.cursors) /\ IsTable(e.idempotency)
  <2>1. /\ e.messages = [i \in DOMAIN d.messages |->
                           [d.messages[i] EXCEPT !.from = to[@], !.to = to[@]]]
        /\ e.deliveries = [i \in DOMAIN d.deliveries |->
                             [d.deliveries[i] EXCEPT !.target = to[@]]]
    BY DEF e, applyPlan
  <2>2. e.conversations = [c \in DOMAIN d.conversations |->
                        [d.conversations[c] EXCEPT !.names = {to[n] : n \in @}]]
    BY DEF e, applyPlan
  <2>3. /\ e.cursors = Keyed(d.cursors, to)
        /\ e.idempotency = Keyed(d.idempotency, RenamedKeys(to, DOMAIN d.idempotency))
    BY DEF e, applyPlan
  <2>4. \A f, g : IsTable(Keyed(f, g))
    BY DEF IsTable, Keyed
  <2>5. IsTable(e.messages) /\ IsTable(e.deliveries)
    BY <2>1 DEF IsTable
  <2>6. IsTable(e.conversations)
    BY <2>2 DEF IsTable
  <2> QED
    BY <2>3, <2>4, <2>5, <2>6
<1> QED
  BY <1>1, <1>2, <1>3, <1>4, <1>5, <1>9, <1>10 DEF Renamed, e


\* The columns of a renamed database.
LEMMA RenamedColumns ==
  ASSUME NEW d, NEW to, NEW e, Renamed(to, d, e)
  PROVE  /\ \A i \in DOMAIN d.messages :
              /\ e.messages[i].from = to[d.messages[i].from]
              /\ e.messages[i].to = to[d.messages[i].to]
              /\ e.messages[i].conversation = d.messages[i].conversation
              /\ e.messages[i].request = d.messages[i].request
         /\ \A c \in DOMAIN d.conversations :
              /\ e.conversations[c].names = {to[k] : k \in d.conversations[c].names}
              /\ e.conversations[c].array = d.conversations[c].array
         /\ \A i \in DOMAIN d.deliveries :
              /\ e.deliveries[i].target = to[d.deliveries[i].target]
              /\ e.deliveries[i].seq = d.deliveries[i].seq
         /\ DOMAIN e.messages = DOMAIN d.messages
         /\ DOMAIN e.conversations = DOMAIN d.conversations
         /\ DOMAIN e.deliveries = DOMAIN d.deliveries
<1>1. ASSUME NEW i \in DOMAIN d.messages
      PROVE  /\ e.messages[i].from = to[d.messages[i].from]
             /\ e.messages[i].to = to[d.messages[i].to]
             /\ e.messages[i].conversation = d.messages[i].conversation
             /\ e.messages[i].request = d.messages[i].request
  <2>1. e.messages[i] =
          [from |-> to[d.messages[i].from], to |-> to[d.messages[i].to],
           conversation |-> d.messages[i].conversation,
           request |-> d.messages[i].request]
    BY DEF Renamed
  <2> QED
    BY <2>1
<1>2. ASSUME NEW c \in DOMAIN d.conversations
      PROVE  /\ e.conversations[c].names = {to[k] : k \in d.conversations[c].names}
             /\ e.conversations[c].array = d.conversations[c].array
  <2>1. e.conversations[c] =
          [names |-> {to[n] : n \in d.conversations[c].names},
           array |-> d.conversations[c].array]
    BY DEF Renamed
  <2> QED
    BY <2>1
<1>3. ASSUME NEW i \in DOMAIN d.deliveries
      PROVE  /\ e.deliveries[i].target = to[d.deliveries[i].target]
             /\ e.deliveries[i].seq = d.deliveries[i].seq
  <2>1. e.deliveries[i] =
          [target |-> to[d.deliveries[i].target], seq |-> d.deliveries[i].seq]
    BY DEF Renamed
  <2> QED
    BY <2>1
<1>4. /\ DOMAIN e.messages = DOMAIN d.messages
      /\ DOMAIN e.conversations = DOMAIN d.conversations
      /\ DOMAIN e.deliveries = DOMAIN d.deliveries
  BY DEF Renamed
<1> QED
  BY <1>1, <1>2, <1>3, <1>4

\* The identities are renamed, no more and no fewer.
LEMMA RenamedIdentities ==
  ASSUME NEW d, Tables(d), NEW to, Renames(to, Identities(d)), NEW e, Renamed(to, d, e)
  PROVE  Identities(e) = {to[n] : n \in Identities(d)}
<1> DEFINE S == Identities(d)
<1>1. \A n \in S : to[n] # Nobody
  BY DEF Renames
<1>2. to[Nobody] = Nobody
  BY DEF Renames
<1>3. ASSUME NEW n \in Identities(e)
      PROVE  \E k \in S : n = to[k]
  <2>1. n # Nobody /\ Occurs(n, e)
    BY <1>3, IdentitiesOccur
  <2>2. CASE n \in e.agents \cup DOMAIN e.cursors
    BY <2>2, NamesOf DEF Renamed
  <2>3. CASE \E c \in DOMAIN e.conversations : n \in e.conversations[c].names
    <3>1. PICK c \in DOMAIN d.conversations : n \in e.conversations[c].names
      BY <2>3 DEF Renamed
    <3>2. e.conversations[c].names = {to[k] : k \in d.conversations[c].names}
      BY RenamedColumns
    <3> QED
      BY <3>1, <3>2, NamesOf
  <2>4. CASE \E i \in DOMAIN e.messages : n \in {e.messages[i].from, e.messages[i].to}
    <3>1. PICK i \in DOMAIN d.messages : n \in {e.messages[i].from, e.messages[i].to}
      BY <2>4 DEF Renamed
    <3>2. /\ e.messages[i].from = to[d.messages[i].from]
          /\ e.messages[i].to = to[d.messages[i].to]
      BY RenamedColumns
    <3>3. d.messages[i].from \in S /\ d.messages[i].to \in S \cup {Nobody}
      BY NamesOf
    <3> QED
      BY <1>2, <2>1, <3>1, <3>2, <3>3
  <2>5. CASE \E i \in DOMAIN e.deliveries : n = e.deliveries[i].target
    <3>1. PICK i \in DOMAIN d.deliveries : n = e.deliveries[i].target
      BY <2>5 DEF Renamed
    <3>2. e.deliveries[i].target = to[d.deliveries[i].target]
      BY RenamedColumns
    <3> QED
      BY <3>1, <3>2, NamesOf
  <2>6. CASE \E k \in DOMAIN e.idempotency : n \in {k[1], k[2]}
    <3>1. PICK k \in DOMAIN d.idempotency :
            n \in {RenamedKey(to, k)[1], RenamedKey(to, k)[2]}
      BY <2>6 DEF Renamed
    <3>2. n \in {to[k[1]], to[k[2]]}
      BY <3>1 DEF RenamedKey
    <3> QED
      BY <3>2, NamesOf
  <2> QED
    BY <2>1, <2>2, <2>3, <2>4, <2>5, <2>6 DEF Occurs
<1>4. ASSUME NEW n \in S
      PROVE  to[n] \in Identities(e)
  <2>1. n # Nobody /\ Occurs(n, d)
    BY <1>4, IdentitiesOccur
  <2>2. Occurs(to[n], e)
    <3>1. CASE n \in d.agents \cup DOMAIN d.cursors
      BY <3>1 DEF Renamed, Occurs
    <3>2. CASE \E c \in DOMAIN d.conversations : n \in d.conversations[c].names
      <4>1. PICK c \in DOMAIN d.conversations : n \in d.conversations[c].names
        BY <3>2
      <4>2. /\ e.conversations[c].names = {to[k] : k \in d.conversations[c].names}
            /\ DOMAIN e.conversations = DOMAIN d.conversations
        BY RenamedColumns
      <4>3. to[n] \in e.conversations[c].names
        BY <4>1, <4>2
      <4> QED
        BY <4>2, <4>3 DEF Occurs
    <3>3. CASE \E i \in DOMAIN d.messages :
                 n \in {d.messages[i].from, d.messages[i].to}
      <4>1. PICK i \in DOMAIN d.messages : n \in {d.messages[i].from, d.messages[i].to}
        BY <3>3
      <4>2. /\ e.messages[i].from = to[d.messages[i].from]
            /\ e.messages[i].to = to[d.messages[i].to]
            /\ DOMAIN e.messages = DOMAIN d.messages
        BY RenamedColumns
      <4>3. to[n] \in {e.messages[i].from, e.messages[i].to}
        BY <4>1, <4>2
      <4> QED
        BY <4>2, <4>3 DEF Occurs
    <3>4. CASE \E i \in DOMAIN d.deliveries : n = d.deliveries[i].target
      <4>1. PICK i \in DOMAIN d.deliveries : n = d.deliveries[i].target
        BY <3>4
      <4>2. /\ e.deliveries[i].target = to[d.deliveries[i].target]
            /\ DOMAIN e.deliveries = DOMAIN d.deliveries
        BY RenamedColumns
      <4> QED
        BY <4>1, <4>2 DEF Occurs
    <3>5. CASE \E k \in DOMAIN d.idempotency : n \in {k[1], k[2]}
      <4>1. PICK k \in DOMAIN d.idempotency : n \in {k[1], k[2]}
        BY <3>5
      <4>2. RenamedKey(to, k) \in DOMAIN e.idempotency
        BY DEF Renamed
      <4>3. to[n] \in {RenamedKey(to, k)[1], RenamedKey(to, k)[2]}
        BY <4>1 DEF RenamedKey
      <4> QED
        BY <4>2, <4>3 DEF Occurs
    <3> QED
      BY <2>1, <3>1, <3>2, <3>3, <3>4, <3>5 DEF Occurs
  <2> QED
    BY <1>1, <2>2, IdentitiesOccur
<1> QED
  BY <1>3, <1>4


\* The tables stay tables.
LEMMA RenamedTables ==
  ASSUME NEW d, Tables(d), NEW to, Renames(to, Identities(d)), NEW e, Renamed(to, d, e)
  PROVE  Tables(e)
<1>1. \A n \in Identities(d) : to[n] \in Name
  BY DEF Renames
<1>2. to[Nobody] = Nobody
  BY DEF Renames
<1>3. \A n \in Identities(d) \cup {Nobody} : to[n] \in Name \cup {Nobody}
  BY <1>1, <1>2
<1>4. e.agents \subseteq Name /\ DOMAIN e.cursors \subseteq Name
  BY <1>1, NamesOf DEF Renamed
<1>5. /\ e = [agents |-> e.agents, messages |-> e.messages,
              conversations |-> e.conversations, deliveries |-> e.deliveries,
              cursors |-> e.cursors, idempotency |-> e.idempotency,
              nextMessageID |-> d.nextMessageID]
      /\ d.nextMessageID \in Nat
  BY DEF Renamed, Tables
<1>6. e.nextMessageID = d.nextMessageID
  BY <1>5
<1>7. /\ DOMAIN e.messages \cup DOMAIN e.deliveries \subseteq 1..e.nextMessageID
  BY <1>6, RenamedColumns DEF Tables
<1>8. ASSUME NEW i \in DOMAIN d.messages
      PROVE  e.messages[i] \in Message
  <2>1. d.messages[i] \in Message
    BY DEF Tables
  <2>2. /\ to[d.messages[i].from] \in Name
        /\ to[d.messages[i].to] \in Name \cup {Nobody}
    BY <1>1, <1>3, NamesOf
  <2>3. e.messages[i] =
          [from |-> to[d.messages[i].from], to |-> to[d.messages[i].to],
           conversation |-> d.messages[i].conversation,
           request |-> d.messages[i].request]
    BY DEF Renamed
  <2> QED
    BY <2>1, <2>2, <2>3 DEF Message
<1>9. ASSUME NEW c \in DOMAIN d.conversations
      PROVE  e.conversations[c] \in Conversation
  <2>1. d.conversations[c] \in Conversation
    BY DEF Tables
  <2>2. {to[n] : n \in d.conversations[c].names} \subseteq Name
    BY <1>1, NamesOf
  <2>3. e.conversations[c] = [names |-> {to[n] : n \in d.conversations[c].names},
                              array |-> d.conversations[c].array]
    BY DEF Renamed
  <2> QED
    BY <2>1, <2>2, <2>3 DEF Conversation
<1>10. ASSUME NEW i \in DOMAIN d.deliveries
       PROVE  e.deliveries[i] \in DeliveryRow
  <2>1. d.deliveries[i] \in DeliveryRow
    BY DEF Tables
  <2>2. to[d.deliveries[i].target] \in Name
    BY <1>1, NamesOf
  <2>3. e.deliveries[i] = [target |-> to[d.deliveries[i].target],
                           seq |-> d.deliveries[i].seq]
    BY DEF Renamed
  <2> QED
    BY <2>1, <2>2, <2>3 DEF DeliveryRow
<1>11. \A a \in DOMAIN e.cursors : e.cursors[a] \in Nat
  <2> TAKE a \in DOMAIN e.cursors
  <2>1. PICK b \in DOMAIN d.cursors : a = to[b]
    BY DEF Renamed
  <2>2. d.cursors[b] \in Nat
    BY DEF Tables
  <2>3. e.cursors[to[b]] = d.cursors[b]
    BY DEF Renamed
  <2> QED
    BY <2>1, <2>2, <2>3
<1>12. \A k \in DOMAIN e.idempotency :
         /\ e.idempotency[k] \in 1..e.nextMessageID
         /\ k \in Name \X Name \X RequestIDs
  <2> TAKE k \in DOMAIN e.idempotency
  <2>1. PICK j \in DOMAIN d.idempotency : k = RenamedKey(to, j)
    BY DEF Renamed
  <2>2. d.idempotency[j] \in 1..d.nextMessageID /\ j \in Name \X Name \X RequestIDs
    BY DEF Tables
  <2>3. e.idempotency[RenamedKey(to, j)] = d.idempotency[j]
    BY DEF Renamed
  <2>4. to[j[1]] \in Name /\ to[j[2]] \in Name
    BY <1>1, NamesOf
  <2>5. RenamedKey(to, j) \in Name \X Name \X RequestIDs
    BY <2>2, <2>4 DEF RenamedKey
  <2> QED
    BY <1>6, <2>1, <2>2, <2>3, <2>5
<1>13. /\ IsTable(e.messages) /\ IsTable(e.conversations) /\ IsTable(e.deliveries)
       /\ IsTable(e.cursors) /\ IsTable(e.idempotency)
  BY DEF Renamed
<1>14. /\ e.messages \in [DOMAIN e.messages -> Message]
       /\ e.conversations \in [DOMAIN e.conversations -> Conversation]
       /\ e.deliveries \in [DOMAIN e.deliveries -> DeliveryRow]
  BY <1>8, <1>9, <1>10, <1>13, RenamedColumns DEF IsTable
<1>15. /\ e.cursors \in [DOMAIN e.cursors -> Nat]
       /\ e.idempotency \in [DOMAIN e.idempotency -> 1..e.nextMessageID]
       /\ DOMAIN e.idempotency \subseteq Name \X Name \X RequestIDs
  BY <1>11, <1>12, <1>13 DEF IsTable
<1> QED
  BY <1>4, <1>5, <1>6, <1>7, <1>14, <1>15 DEF Tables


\* Renaming keeps the tables in agreement, keys and lists included.
LEMMA RenamedAgreement ==
  ASSUME NEW d, Tables(d), Agreement(d), NEW to, Renames(to, Identities(d)),
         NEW e, Renamed(to, d, e)
  PROVE  Agreement(e)
<1>1. /\ to[Nobody] = Nobody
      /\ \A n \in Identities(d) : to[n] # Nobody
      /\ \A n, k \in Identities(d) \cup {Nobody} : to[n] = to[k] => n = k
  BY DEF Renames
<1>2. ASSUME NEW i \in DOMAIN e.messages, e.messages[i].to # Nobody
      PROVE  i \in DOMAIN e.deliveries /\ e.deliveries[i].target = e.messages[i].to
  <2>1. i \in DOMAIN d.messages /\ e.messages[i].to = to[d.messages[i].to]
    BY RenamedColumns
  <2>2. d.messages[i].to # Nobody
    BY <1>1, <1>2, <2>1
  <2>3. i \in DOMAIN d.deliveries /\ d.deliveries[i].target = d.messages[i].to
    BY <2>1, <2>2 DEF Agreement
  <2> QED
    BY <2>1, <2>3, RenamedColumns
<1>3. ASSUME NEW i \in DOMAIN e.deliveries
      PROVE  /\ e.deliveries[i].target \in DOMAIN e.cursors
             /\ e.deliveries[i].seq < e.cursors[e.deliveries[i].target]
  <2> DEFINE t == d.deliveries[i].target
  <2>1. /\ i \in DOMAIN d.deliveries /\ e.deliveries[i].target = to[t]
        /\ e.deliveries[i].seq = d.deliveries[i].seq
    BY RenamedColumns
  <2>2. t \in DOMAIN d.cursors /\ d.deliveries[i].seq < d.cursors[t]
    BY <2>1 DEF Agreement
  <2>3. to[t] \in DOMAIN e.cursors /\ e.cursors[to[t]] = d.cursors[t]
    BY <2>2 DEF Renamed
  <2> QED
    BY <2>1, <2>2, <2>3
<1>4. ASSUME NEW i \in DOMAIN e.messages, e.messages[i].request # Injected
      PROVE  /\ e.messages[i].to # Nobody
             /\ e.messages[i].conversation \in DOMAIN e.conversations
             /\ {e.messages[i].from, e.messages[i].to}
                  \subseteq e.conversations[e.messages[i].conversation].names
  <2> DEFINE c == d.messages[i].conversation
  <2>1. /\ i \in DOMAIN d.messages /\ e.messages[i].to = to[d.messages[i].to]
        /\ e.messages[i].from = to[d.messages[i].from]
        /\ e.messages[i].conversation = c
        /\ e.messages[i].request = d.messages[i].request
    BY RenamedColumns
  <2>2. /\ d.messages[i].to # Nobody /\ c \in DOMAIN d.conversations
        /\ d.messages[i].from \in d.conversations[c].names
        /\ d.messages[i].to \in d.conversations[c].names
    BY <1>4, <2>1 DEF Agreement
  <2>3. /\ c \in DOMAIN e.conversations
        /\ e.conversations[c].names = {to[k] : k \in d.conversations[c].names}
    <3>1. /\ DOMAIN e.conversations = DOMAIN d.conversations
          /\ e.conversations[c] = [names |-> {to[k] : k \in d.conversations[c].names},
                                   array |-> d.conversations[c].array]
      BY <2>2 DEF Renamed
    <3> QED
      BY <2>2, <3>1
  <2>4. d.messages[i].to \in Identities(d)
    BY <2>1, <2>2, NamesOf
  <2> HIDE DEF c
  <2> QED
    BY <1>1, <2>1, <2>2, <2>3, <2>4
<1>5. ASSUME NEW i \in DOMAIN e.deliveries, NEW j \in DOMAIN e.deliveries,
             e.deliveries[i] = e.deliveries[j]
      PROVE  i = j
  <2>1. /\ i \in DOMAIN d.deliveries /\ j \in DOMAIN d.deliveries
        /\ to[d.deliveries[i].target] = to[d.deliveries[j].target]
        /\ d.deliveries[i].seq = d.deliveries[j].seq
    <3>1. i \in DOMAIN d.deliveries /\ j \in DOMAIN d.deliveries
      BY RenamedColumns
    <3>2. /\ e.deliveries[i].target = to[d.deliveries[i].target]
          /\ e.deliveries[i].seq = d.deliveries[i].seq
      BY <3>1, RenamedColumns
    <3>3. /\ e.deliveries[j].target = to[d.deliveries[j].target]
          /\ e.deliveries[j].seq = d.deliveries[j].seq
      BY <3>1, RenamedColumns
    <3> QED
      BY <1>5, <3>1, <3>2, <3>3
  <2>2. d.deliveries[i].target = d.deliveries[j].target
    BY <1>1, <2>1, NamesOf
  <2>3. d.deliveries[i] \in DeliveryRow /\ d.deliveries[j] \in DeliveryRow
    BY <2>1 DEF Tables
  <2>4. d.deliveries[i] = d.deliveries[j]
    BY <2>1, <2>2, <2>3 DEF DeliveryRow
  <2> QED
    BY <2>1, <2>4 DEF Agreement
<1>6. ASSUME NEW key \in DOMAIN e.idempotency, e.idempotency[key] \in DOMAIN e.messages
      PROVE  key = <<e.messages[e.idempotency[key]].from,
                     e.messages[e.idempotency[key]].to,
                     e.messages[e.idempotency[key]].request>>
  <2>1. PICK k \in DOMAIN d.idempotency : key = RenamedKey(to, k)
    BY DEF Renamed
  <2> DEFINE i == d.idempotency[k]
             m == d.messages[i]
  <2>2. e.idempotency[key] = i
    BY <2>1 DEF Renamed
  <2>3. i \in DOMAIN d.messages
    BY <1>6, <2>2, RenamedColumns
  <2>4. k = <<m.from, m.to, m.request>>
    BY <2>3 DEF Agreement
  <2>5. /\ e.messages[i].from = to[m.from] /\ e.messages[i].to = to[m.to]
        /\ e.messages[i].request = m.request
    BY <2>3, RenamedColumns
  <2> HIDE DEF i, m
  <2>6. RenamedKey(to, k) = <<to[m.from], to[m.to], m.request>>
    BY <2>4 DEF RenamedKey
  <2> QED
    BY <2>1, <2>2, <2>5, <2>6
<1> QED
  BY <1>2, <1>3, <1>4, <1>5, <1>6 DEF Agreement

(***************************************************************************)
(* The manifest                                                            *)
(***************************************************************************)
\* A prefixed name has an explicit scope, that of the authority.
LEMMA PrefixedName ==
  ASSUME NEW auth \in Authorities, NEW long \in Name, NEW short \in Name,
         PrefixedBy(auth, long, short)
  PROVE  /\ hasExplicitScope(long) /\ ScopeOfName(long) = Prefix(auth)
         /\ ~hasExplicitScope(short) /\ Len(long) > 1 /\ long # short
<1>1. /\ ~hasExplicitScope(short) /\ long = <<Prefix(auth)>> \o short
      /\ short \in Seq(STRING) /\ Len(short) \in Nat
  BY DEF PrefixedBy, Name
<1>2. Len(short) > 0
  BY <1>1 DEF Name, Nobody
<1> DEFINE p == Prefix(auth)
           S == STRING \cup {p}
<1>3. p \in {"personal", "ucla"}
  BY DEF Prefix
<1> HIDE DEF p
<1>4. Len(long) = 1 + Len(short) /\ long[1] = p
  <2>1. short \in Seq(S) /\ <<p>> \in Seq(S)
    BY <1>1
  <2> HIDE DEF S
  <2>2. long = <<p>> \o short
    BY <1>1 DEF p
  <2> QED
    BY <2>1, <2>2
<1>5. Len(long) > 1
  BY <1>1, <1>2, <1>4
<1>6. ScopeOfName(long) = Prefix(auth)
  BY <1>3, <1>4, <1>5 DEF ScopeOfName, Scopes, p
<1>7. hasExplicitScope(long)
  BY <1>3, <1>6 DEF hasExplicitScope, p
<1> QED
  BY <1>1, <1>5, <1>6, <1>7

\* What parsing says of a row.
LEMMA ParsedRow ==
  ASSUME NEW m, Parsed(m), NEW r \in m
  PROVE  /\ r.source \in Name /\ r.target \in Name /\ r.authority \in Authorities
         /\ r.disposition \in Dispositions
         /\ \/ r.source = r.target /\ (hasExplicitScope(r.source) \/ r.controlPlane)
            \/ /\ ~r.controlPlane /\ r.source # r.target
               /\ r.disposition # "unchanged"
               /\ \/ PrefixedBy(r.authority, r.target, r.source)
                  \/ PrefixedBy(r.authority, r.source, r.target)
<1>1. r \in ManifestRow /\ parseManifestRow(r)
  BY DEF Parsed, ParseManifest
<1>2. /\ r.source \in Name /\ r.target \in Name /\ r.authority \in Authorities
      /\ r.disposition \in Dispositions /\ r.controlPlane \in BOOLEAN
  BY <1>1 DEF ManifestRow, parseManifestRow, Name
<1>3. validateMapping(r)
  BY <1>1 DEF parseManifestRow
<1>4. CASE r.disposition = "unchanged"
  BY <1>2, <1>3, <1>4 DEF validateMapping
<1>5. CASE r.disposition # "unchanged"
  <2>1. /\ ~r.controlPlane
        /\ \/ PrefixedBy(r.authority, r.target, r.source)
           \/ PrefixedBy(r.authority, r.source, r.target)
    BY <1>2, <1>3, <1>5 DEF validateMapping, ForwardRow
  <2>2. r.source # r.target
    BY <1>2, <2>1, PrefixedName
  <2> QED
    BY <1>2, <1>5, <2>1, <2>2
<1> QED
  BY <1>4, <1>5

\* Within an authority, sources and targets are used once.
LEMMA RowsUnique ==
  ASSUME NEW m, Parsed(m), NEW r \in m, NEW q \in m, r.authority = q.authority,
         r.source = q.source \/ r.target = q.target
  PROVE  r = q
BY DEF Parsed, ParseManifest

\* The manifest's renaming of a database is one.
LEMMA RenamingRenames ==
  ASSUME NEW d, Tables(d), NEW m, Parsed(m), TargetsFree(m, d)
  PROVE  /\ Renames(Renaming(m, d), Identities(d))
         /\ \A r \in Active(m, d) : Renaming(m, d)[r.source] = r.target
         /\ \A n \in Identities(d) :
              \/ Renaming(m, d)[n] = n /\ \A r \in Active(m, d) : r.source # n
              \/ \E r \in Active(m, d) : r.source = n /\ Renaming(m, d)[n] = r.target
<1> DEFINE S == Identities(d)
           A == Active(m, d)
           to == Renaming(m, d)
<1>1. /\ A \subseteq m
      /\ \A r \in A : /\ r.authority = authority /\ r.source # r.target
                      /\ r.source \in S /\ r.target \in Name /\ r.target \notin S
  BY ParsedRow DEF Active, selectMappings, TargetsFree
<1>2. \A r, q \in A : r.source = q.source \/ r.target = q.target => r = q
  BY <1>1, RowsUnique
<1>3. S \subseteq Name /\ Nobody \notin Name
  BY NamesOf DEF Name
<1>4. DOMAIN to = S \cup {Nobody}
  BY DEF Renaming
<1>5. \A n \in S \cup {Nobody} :
        to[n] = IF \E r \in A : r.source = n
                THEN (CHOOSE r \in A : r.source = n).target ELSE n
  BY DEF Renaming
<1>6. to = [n \in S \cup {Nobody} |-> to[n]]
  BY DEF Renaming
<1> HIDE DEF A, to, S
<1>7. ASSUME NEW r \in A
      PROVE  to[r.source] = r.target
  <2>1. to[r.source] = (CHOOSE q \in A : q.source = r.source).target
    BY <1>1, <1>5
  <2>2. (CHOOSE q \in A : q.source = r.source) = r
    BY <1>2
  <2> QED
    BY <2>1, <2>2
<1>8. \A n \in S \cup {Nobody} :
        \/ to[n] = n /\ \A r \in A : r.source # n
        \/ \E r \in A : r.source = n /\ to[n] = r.target
  <2> TAKE n \in S \cup {Nobody}
  <2>1. CASE \E r \in A : r.source = n
    BY <1>7, <2>1
  <2>2. CASE \A r \in A : r.source # n
    BY <1>5, <2>2
  <2> QED
    BY <2>1, <2>2
<1>9. to[Nobody] = Nobody
  BY <1>1, <1>3, <1>8
<1>10. \A n \in S : to[n] \in Name
  BY <1>1, <1>3, <1>8
<1>11. \A n, k \in S \cup {Nobody} : to[n] = to[k] => n = k
  <2> TAKE n, k \in S \cup {Nobody}
  <2> HAVE to[n] = to[k]
  <2>1. CASE to[n] = n /\ to[k] = k
    BY <2>1
  <2>2. CASE \E r \in A : r.source = n /\ to[n] = r.target
    <3>1. PICK r \in A : r.source = n /\ to[n] = r.target
      BY <2>2
    <3>2. to[k] # k
      BY <1>1, <1>3, <3>1
    <3>3. PICK q \in A : q.source = k /\ to[k] = q.target
      BY <1>8, <3>2
    <3> QED
      BY <1>2, <3>1, <3>3
  <2>3. CASE to[n] = n /\ \E q \in A : q.source = k /\ to[k] = q.target
    BY <1>1, <1>3, <2>3
  <2> QED
    BY <1>8, <2>1, <2>2, <2>3
<1>12. to \in [S \cup {Nobody} -> Name \cup {Nobody}]
  BY <1>6, <1>9, <1>10
<1>13. Renames(to, S)
  BY <1>3, <1>9, <1>10, <1>11, <1>12 DEF Renames
<1> QED
  BY <1>7, <1>8, <1>13 DEF A, S, to


(***************************************************************************)
(* The bus                                                                 *)
(***************************************************************************)
\* What holds of a database that the bus has written.
Sound(d) ==
  Tables(d) /\ IsFiniteSet(Identities(d)) /\ Agreement(d) /\ Apart(d)

LEMMA PutEntry ==
  ASSUME NEW f, NEW k, NEW v
  PROVE  /\ DOMAIN Put(f, k, v) = DOMAIN f \cup {k}
         /\ Put(f, k, v)[k] = v
         /\ \A j \in DOMAIN f : j # k => Put(f, k, v)[j] = f[j]
         /\ \A T : f \in [DOMAIN f -> T] /\ v \in T =>
              Put(f, k, v) \in [DOMAIN Put(f, k, v) -> T]
BY DEF Put

LEMMA WithoutEntry ==
  ASSUME NEW f, NEW k
  PROVE  /\ DOMAIN Without(f, k) = DOMAIN f \ {k}
         /\ \A j \in DOMAIN f : j # k => Without(f, k)[j] = f[j]
         /\ \A T : f \in [DOMAIN f -> T] =>
              Without(f, k) \in [DOMAIN Without(f, k) -> T]
BY DEF Without

\* Finitely many names are added by a call.
LEMMA StaysFinite ==
  ASSUME NEW d, IsFiniteSet(Identities(d)), NEW F, IsFiniteSet(F), NEW e,
         \A n : Occurs(n, e) => Occurs(n, d) \/ n \in F
  PROVE  IsFiniteSet(Identities(e))
<1>1. Identities(e) \subseteq Identities(d) \cup F
  BY IdentitiesOccur
<1>2. IsFiniteSet(Identities(d) \cup F)
  BY FS_Union
<1> QED
  BY <1>1, <1>2, FS_Subset

LEMMA EmptySound == Sound(Empty)
<1>1. /\ Empty.agents = {} /\ Empty.messages = << >> /\ Empty.conversations = << >>
      /\ Empty.deliveries = << >> /\ Empty.cursors = << >>
      /\ Empty.idempotency = << >> /\ Empty.nextMessageID = 0
      /\ Empty = [agents |-> Empty.agents, messages |-> Empty.messages,
                  conversations |-> Empty.conversations,
                  deliveries |-> Empty.deliveries,
                  cursors |-> Empty.cursors, idempotency |-> Empty.idempotency,
                  nextMessageID |-> Empty.nextMessageID]
  BY DEF Empty
<1> HIDE DEF Empty
<1>2. DOMAIN << >> = {} /\ \A T : << >> \in [DOMAIN << >> -> T]
  OBVIOUS
<1>3. Tables(Empty)
  BY <1>1, <1>2 DEF Tables
<1>4. \A n : ~Occurs(n, Empty)
  BY <1>1, <1>2 DEF Occurs
<1>5. Identities(Empty) = {}
  BY <1>4, IdentitiesOccur
<1> QED
  BY <1>1, <1>2, <1>3, <1>5, FS_EmptySet DEF Sound, Agreement, Apart

\* RegisterAgent.
LEMMA RegisterSound ==
  ASSUME Sound(db), NEW a \in Name
  PROVE  Sound([db EXCEPT !.agents = @ \cup {a}])
<1> DEFINE e == [db EXCEPT !.agents = @ \cup {a}]
<1>1. /\ e.agents = db.agents \cup {a} /\ e.messages = db.messages
      /\ e.conversations = db.conversations /\ e.deliveries = db.deliveries
      /\ e.cursors = db.cursors /\ e.idempotency = db.idempotency
      /\ e.nextMessageID = db.nextMessageID
      /\ e = [agents |-> e.agents, messages |-> e.messages,
              conversations |-> e.conversations, deliveries |-> e.deliveries,
              cursors |-> e.cursors, idempotency |-> e.idempotency,
              nextMessageID |-> e.nextMessageID]
  BY DEF Sound, Tables
<1> HIDE DEF e
<1>2. Tables(e)
  BY <1>1 DEF Sound, Tables
<1>3. \A n : Occurs(n, e) => Occurs(n, db) \/ n \in {a}
  BY <1>1 DEF Occurs
<1>4. IsFiniteSet(Identities(e))
  BY <1>3, StaysFinite, FS_Singleton DEF Sound
<1> QED
  BY <1>1, <1>2, <1>4 DEF Sound, Agreement, Apart, e


\* The columns of a database as a record.
IsDatabase(e) ==
  e = [agents |-> e.agents, messages |-> e.messages,
       conversations |-> e.conversations, deliveries |-> e.deliveries,
       cursors |-> e.cursors, idempotency |-> e.idempotency,
       nextMessageID |-> e.nextMessageID]

CursorOf(to) == IF to \in DOMAIN db.cursors THEN db.cursors[to] ELSE 0

\* What persistAcceptance leaves in the columns.
Accepted(id, from, to, cid, request, conversation, e) ==
  /\ IsDatabase(e)
  /\ e.agents = db.agents /\ e.idempotency = db.idempotency
  /\ e.nextMessageID = id
  /\ e.messages = Put(db.messages, id,
                      [from |-> from, to |-> to, conversation |-> cid,
                       request |-> request])
  /\ e.conversations = Put(db.conversations, cid, conversation)
  /\ IF to = Nobody
     THEN e.deliveries = db.deliveries /\ e.cursors = db.cursors
     ELSE /\ e.deliveries = Put(db.deliveries, id, [target |-> to, seq |-> CursorOf(to)])
          /\ e.cursors = Put(db.cursors, to, CursorOf(to) + 1)

LEMMA AcceptColumns ==
  ASSUME Tables(db), NEW id, NEW from, NEW to, NEW cid, NEW request, NEW conversation
  PROVE  Accepted(id, from, to, cid, request, conversation,
                  Accept(id, from, to, cid, request, conversation))
<1> DEFINE e == Accept(id, from, to, cid, request, conversation)
<1>1. IsDatabase(db)
  BY DEF Tables, IsDatabase
<1> DEFINE message == [from |-> from, to |-> to, conversation |-> cid, request |-> request]
           messages == Put(db.messages, id, message)
           conversations == Put(db.conversations, cid, conversation)
           next == CursorOf(to)
           deliveries == Put(db.deliveries, id, [target |-> to, seq |-> next])
           cursors == Put(db.cursors, to, next + 1)
           kept == [agents |-> db.agents, messages |-> messages,
                    conversations |-> conversations, deliveries |-> db.deliveries,
                    cursors |-> db.cursors, idempotency |-> db.idempotency,
                    nextMessageID |-> id]
<1> HIDE DEF messages, conversations, deliveries, cursors, next, e
<1>2. [db EXCEPT !.nextMessageID = id, !.messages = messages,
                 !.conversations = conversations] = kept
  <2> DEFINE columns == {"agents", "messages", "conversations", "deliveries",
                         "cursors", "idempotency", "nextMessageID"}
             f == [db EXCEPT !.nextMessageID = id, !.messages = messages,
                             !.conversations = conversations]
  <2>1. db = [c \in columns |-> db[c]]
    BY <1>1 DEF IsDatabase
  <2>2. DOMAIN f = columns /\ f = [c \in columns |-> f[c]]
    BY <2>1
  <2>3. /\ f.agents = db.agents /\ f.messages = messages
        /\ f.conversations = conversations /\ f.deliveries = db.deliveries
        /\ f.cursors = db.cursors /\ f.idempotency = db.idempotency
        /\ f.nextMessageID = id
    BY <2>1
  <2> HIDE DEF f
  <2>4. f = [agents |-> f.agents, messages |-> f.messages,
             conversations |-> f.conversations, deliveries |-> f.deliveries,
             cursors |-> f.cursors, idempotency |-> f.idempotency,
             nextMessageID |-> f.nextMessageID]
    BY <2>2
  <2> QED
    BY <2>3, <2>4 DEF f
<1>3. e = IF to = Nobody THEN kept
          ELSE [kept EXCEPT !.deliveries = deliveries, !.cursors = cursors]
  <2> DEFINE base == [db EXCEPT !.nextMessageID = id, !.messages = messages,
                                !.conversations = conversations]
  <2>1. e = IF to = Nobody THEN base
            ELSE [base EXCEPT !.deliveries = Put(base.deliveries, id, [target |-> to, seq |-> next]),
                              !.cursors = Put(base.cursors, to, next + 1)]
    BY DEF Accept, CursorOf, e, messages, conversations, next
  <2>2. base = kept
    BY <1>2
  <2>3. kept.deliveries = db.deliveries /\ kept.cursors = db.cursors
    OBVIOUS
  <2> HIDE DEF base, kept
  <2> QED
    BY <2>1, <2>2, <2>3 DEF deliveries, cursors
<1>4. CASE to = Nobody
  <2>1. /\ IsDatabase(e)
        /\ e.agents = db.agents /\ e.idempotency = db.idempotency
        /\ e.nextMessageID = id
        /\ e.messages = messages /\ e.conversations = conversations
        /\ e.deliveries = db.deliveries /\ e.cursors = db.cursors
    BY <1>3, <1>4 DEF IsDatabase
  <2> QED
    BY <1>4, <2>1 DEF Accepted, messages, conversations, message, e
<1>5. CASE to # Nobody
  <2>1. /\ IsDatabase(e)
        /\ e.agents = db.agents /\ e.idempotency = db.idempotency
        /\ e.nextMessageID = id
        /\ e.messages = messages /\ e.conversations = conversations
        /\ e.deliveries = deliveries /\ e.cursors = cursors
    BY <1>3, <1>5 DEF IsDatabase
  <2> QED
    BY <1>5, <2>1 DEF Accepted, messages, conversations, deliveries, cursors, next, e
<1> QED
  BY <1>4, <1>5 DEF e

\* The message of an agent has a target, joins no scopes and names participants.
Addressed(from, to, request, names) ==
  request # Injected => /\ to # Nobody /\ {from, to} \subseteq names
                        /\ ~Joins(from, to)

(* persistAcceptance.  The conversation keeps its participants, and the    *)
(* message of an agent has a target, joins no scopes and names two of them.*)
LEMMA AcceptSound ==
  ASSUME Sound(db), NEW id, id = db.nextMessageID + 1,
         NEW from \in Name, NEW to \in Name \cup {Nobody}, NEW cid \in ConversationIDs,
         NEW request \in RequestIDs \cup {Injected}, NEW conversation \in Conversation,
         Participants(cid) \subseteq conversation.names,
         IsFiniteSet(conversation.names),
         Addressed(from, to, request, conversation.names),
         NEW e, e = Accept(id, from, to, cid, request, conversation)
  PROVE  /\ Sound(e) /\ e.nextMessageID = id /\ e.idempotency = db.idempotency
         /\ id \in DOMAIN e.messages
         /\ e.messages[id].from = from /\ e.messages[id].to = to
         /\ e.messages[id].request = request
<1> DEFINE message == [from |-> from, to |-> to, conversation |-> cid, request |-> request]
           next == CursorOf(to)
<1>1. /\ Tables(db) /\ Agreement(db) /\ Apart(db)
      /\ id \in Nat /\ id > db.nextMessageID /\ db.nextMessageID \in Nat
      /\ DOMAIN db.messages \subseteq 1..db.nextMessageID
      /\ DOMAIN db.deliveries \subseteq 1..db.nextMessageID
  BY DEF Sound, Tables
<1>2. id \notin DOMAIN db.messages /\ id \notin DOMAIN db.deliveries
  BY <1>1
<1>3. /\ IsDatabase(e)
      /\ e.agents = db.agents /\ e.idempotency = db.idempotency
      /\ e.nextMessageID = id
      /\ e.messages = Put(db.messages, id, message)
      /\ e.conversations = Put(db.conversations, cid, conversation)
      /\ IF to = Nobody
         THEN e.deliveries = db.deliveries /\ e.cursors = db.cursors
         ELSE /\ e.deliveries = Put(db.deliveries, id, [target |-> to, seq |-> next])
              /\ e.cursors = Put(db.cursors, to, next + 1)
  <2>1. Accepted(id, from, to, cid, request, conversation, e)
    BY <1>1, AcceptColumns
  <2> QED
    BY <2>1 DEF Accepted, next
<1>4. /\ message \in Message /\ message.from = from /\ message.to = to
      /\ message.conversation = cid /\ message.request = request
  BY DEF Message
<1>5. /\ DOMAIN e.messages = DOMAIN db.messages \cup {id}
      /\ e.messages[id] = message
      /\ \A i \in DOMAIN db.messages : e.messages[i] = db.messages[i]
      /\ e.messages \in [DOMAIN e.messages -> Message]
  <2> HIDE DEF message
  <2>1. db.messages \in [DOMAIN db.messages -> Message]
    BY <1>1 DEF Tables
  <2> QED
    BY <1>2, <1>3, <1>4, <2>1 DEF Put
<1>6. /\ DOMAIN e.conversations = DOMAIN db.conversations \cup {cid}
      /\ e.conversations[cid] = conversation
      /\ \A c \in DOMAIN db.conversations : c # cid =>
           e.conversations[c] = db.conversations[c]
      /\ e.conversations \in [DOMAIN e.conversations -> Conversation]
  <2>1. db.conversations \in [DOMAIN db.conversations -> Conversation]
    BY <1>1 DEF Tables
  <2> QED
    BY <1>3, <2>1 DEF Put
<1>7. \A c \in DOMAIN db.conversations :
        db.conversations[c].names \subseteq e.conversations[c].names
  BY <1>6 DEF Participants
<1>8. /\ next \in Nat
      /\ \A i \in DOMAIN db.deliveries : db.deliveries[i].target = to =>
           db.deliveries[i].seq < next
  <2>1. next \in Nat
    BY <1>1 DEF Tables, CursorOf
  <2>2. \A i \in DOMAIN db.deliveries :
           /\ db.deliveries[i].target \in DOMAIN db.cursors
           /\ db.deliveries[i].seq < db.cursors[db.deliveries[i].target]
    BY <1>1 DEF Agreement
  <2> QED
    BY <2>1, <2>2 DEF CursorOf
<1> DEFINE row == [target |-> to, seq |-> next]
<1>9. to # Nobody =>
        /\ DOMAIN e.deliveries = DOMAIN db.deliveries \cup {id}
        /\ e.deliveries[id] = row /\ row.target = to /\ row.seq = next
        /\ \A i \in DOMAIN db.deliveries : e.deliveries[i] = db.deliveries[i]
        /\ e.deliveries \in [DOMAIN e.deliveries -> DeliveryRow]
  <2> SUFFICES ASSUME to # Nobody
               PROVE  /\ DOMAIN e.deliveries = DOMAIN db.deliveries \cup {id}
                      /\ e.deliveries[id] = row /\ row.target = to /\ row.seq = next
                      /\ \A i \in DOMAIN db.deliveries : e.deliveries[i] = db.deliveries[i]
                      /\ e.deliveries \in [DOMAIN e.deliveries -> DeliveryRow]
    OBVIOUS
  <2>1. db.deliveries \in [DOMAIN db.deliveries -> DeliveryRow]
    BY <1>1 DEF Tables
  <2>2. row \in DeliveryRow /\ row.target = to /\ row.seq = next
    BY <1>8 DEF DeliveryRow
  <2>3. e.deliveries = Put(db.deliveries, id, row)
    BY <1>3
  <2> HIDE DEF row, next
  <2> QED
    BY <1>2, <2>1, <2>2, <2>3 DEF Put
<1>10. to # Nobody =>
         /\ DOMAIN e.cursors = DOMAIN db.cursors \cup {to}
         /\ e.cursors[to] = next + 1
         /\ \A t \in DOMAIN db.cursors : t # to => e.cursors[t] = db.cursors[t]
         /\ e.cursors \in [DOMAIN e.cursors -> Nat]
  <2> SUFFICES ASSUME to # Nobody
               PROVE  /\ DOMAIN e.cursors = DOMAIN db.cursors \cup {to}
                      /\ e.cursors[to] = next + 1
                      /\ \A t \in DOMAIN db.cursors : t # to => e.cursors[t] = db.cursors[t]
                      /\ e.cursors \in [DOMAIN e.cursors -> Nat]
    OBVIOUS
  <2>1. db.cursors \in [DOMAIN db.cursors -> Nat]
    BY <1>1 DEF Tables
  <2>2. next + 1 \in Nat
    BY <1>8
  <2>3. e.cursors = Put(db.cursors, to, next + 1)
    BY <1>3
  <2> HIDE DEF next
  <2> QED
    BY <2>1, <2>2, <2>3 DEF Put
<1> HIDE DEF message, row
<1>11. \A t \in DOMAIN db.cursors : t \in DOMAIN e.cursors /\ db.cursors[t] =< e.cursors[t]
  <2>1. \A t \in DOMAIN db.cursors : db.cursors[t] \in Nat
    BY <1>1 DEF Tables
  <2>2. CASE to = Nobody
    BY <1>3, <2>1, <2>2
  <2>3. CASE to # Nobody
    BY <1>10, <2>1, <2>3 DEF CursorOf
  <2> QED
    BY <2>2, <2>3
<1> HIDE DEF next
<1>12. Tables(e)
  <2>1. e.idempotency \in [DOMAIN e.idempotency -> 1..id]
    <3>1. db.idempotency \in [DOMAIN db.idempotency -> 1..db.nextMessageID]
      BY <1>1 DEF Tables
    <3>2. 1..db.nextMessageID \subseteq 1..id
      BY <1>1
    <3> QED
      BY <1>3, <3>1, <3>2
  <2>2. DOMAIN e.messages \subseteq 1..id
    BY <1>1, <1>5
  <2>3. /\ DOMAIN e.deliveries \subseteq 1..id
        /\ e.deliveries \in [DOMAIN e.deliveries -> DeliveryRow]
    <3>1. CASE to = Nobody
      BY <1>1, <1>3, <3>1 DEF Tables
    <3>2. CASE to # Nobody
      BY <1>1, <1>9, <3>2
    <3> QED
      BY <3>1, <3>2
  <2>4. DOMAIN e.cursors \subseteq Name /\ e.cursors \in [DOMAIN e.cursors -> Nat]
    <3>1. CASE to = Nobody
      BY <1>1, <1>3, <3>1 DEF Tables
    <3>2. CASE to # Nobody
      BY <1>1, <1>10, <3>2 DEF Tables
    <3> QED
      BY <3>1, <3>2
  <2>5. e.agents \subseteq Name /\ DOMAIN e.idempotency \subseteq Name \X Name \X RequestIDs
    BY <1>1, <1>3 DEF Tables
  <2> QED
    BY <1>1, <1>3, <1>5, <1>6, <2>1, <2>2, <2>3, <2>4, <2>5 DEF Tables, IsDatabase
<1>13. IsFiniteSet(Identities(e))
  <2> DEFINE F == {from} \cup ({to} \cup conversation.names)
  <2>1. IsFiniteSet(F)
    BY FS_Singleton, FS_Union
  <2>2. ASSUME NEW n, Occurs(n, e)
        PROVE  Occurs(n, db) \/ n \in F
    <3>1. CASE n \in e.agents \cup DOMAIN e.cursors
      BY <1>3, <1>10, <3>1 DEF Occurs
    <3>2. CASE \E c \in DOMAIN e.conversations : n \in e.conversations[c].names
      BY <1>6, <3>2 DEF Occurs
    <3>3. CASE \E i \in DOMAIN e.messages : n \in {e.messages[i].from, e.messages[i].to}
      BY <1>4, <1>5, <3>3 DEF Occurs
    <3>4. CASE \E i \in DOMAIN e.deliveries : n = e.deliveries[i].target
      BY <1>3, <1>9, <3>4 DEF Occurs
    <3>5. CASE \E k \in DOMAIN e.idempotency : n \in {k[1], k[2]}
      BY <1>3, <3>5 DEF Occurs
    <3> QED
      BY <2>2, <3>1, <3>2, <3>3, <3>4, <3>5 DEF Occurs
  <2> HIDE DEF F
  <2> QED
    BY <2>1, <2>2, StaysFinite DEF Sound
<1>14. \A i \in DOMAIN e.messages : e.messages[i].to # Nobody =>
         i \in DOMAIN e.deliveries /\ e.deliveries[i].target = e.messages[i].to
  <2> TAKE i \in DOMAIN e.messages
  <2>1. CASE i = id
    BY <1>4, <1>5, <1>9, <2>1
  <2>2. CASE i # id /\ to # Nobody
    BY <1>1, <1>5, <1>9, <2>2 DEF Agreement
  <2>3. CASE i # id /\ to = Nobody
    BY <1>1, <1>3, <1>5, <2>3 DEF Agreement
  <2> QED
    BY <2>1, <2>2, <2>3
<1>15. \A i \in DOMAIN e.deliveries :
         /\ e.deliveries[i].target \in DOMAIN e.cursors
         /\ e.deliveries[i].seq < e.cursors[e.deliveries[i].target]
  <2> TAKE i \in DOMAIN e.deliveries
  <2>1. CASE to = Nobody
    BY <1>1, <1>3, <2>1 DEF Agreement
  <2>2. CASE to # Nobody /\ i = id
    BY <1>8, <1>9, <1>10, <2>2
  <2>3. CASE to # Nobody /\ i # id
    <3>1. i \in DOMAIN db.deliveries /\ e.deliveries[i] = db.deliveries[i]
      BY <1>9, <2>3
    <3>2. /\ db.deliveries[i].target \in DOMAIN db.cursors
          /\ db.deliveries[i].seq < db.cursors[db.deliveries[i].target]
      BY <1>1, <3>1 DEF Agreement
    <3>3. /\ db.deliveries[i].seq \in Nat
          /\ db.cursors[db.deliveries[i].target] \in Nat
          /\ e.cursors[db.deliveries[i].target] \in Nat
      BY <1>1, <1>11, <1>12, <3>1, <3>2 DEF Tables, DeliveryRow
    <3> QED
      BY <1>11, <3>1, <3>2, <3>3
  <2> QED
    BY <2>1, <2>2, <2>3
<1>16. \A i \in DOMAIN e.messages : e.messages[i].request # Injected =>
         /\ e.messages[i].to # Nobody
         /\ e.messages[i].conversation \in DOMAIN e.conversations
         /\ {e.messages[i].from, e.messages[i].to}
              \subseteq e.conversations[e.messages[i].conversation].names
  <2> TAKE i \in DOMAIN e.messages
  <2>1. CASE i = id
    BY <1>4, <1>5, <1>6, <2>1 DEF Addressed
  <2>2. CASE i # id
    <3>1. i \in DOMAIN db.messages /\ e.messages[i] = db.messages[i]
      BY <1>5, <2>2
    <3> QED
      BY <1>1, <1>6, <1>7, <3>1 DEF Agreement
  <2> QED
    BY <2>1, <2>2
<1>17. \A i, j \in DOMAIN e.deliveries : e.deliveries[i] = e.deliveries[j] => i = j
  <2>1. CASE to = Nobody
    BY <1>1, <1>3, <2>1 DEF Agreement
  <2>2. CASE to # Nobody
    <3>1. \A i \in DOMAIN db.deliveries : e.deliveries[i] # e.deliveries[id]
      <4> TAKE i \in DOMAIN db.deliveries
      <4>1. db.deliveries[i].seq \in Nat
        BY <1>1 DEF Tables, DeliveryRow
      <4>2. db.deliveries[i].target = to => db.deliveries[i].seq # next
        BY <1>8, <4>1
      <4> QED
        BY <1>9, <2>2, <4>2
    <3> QED
      BY <1>1, <1>9, <2>2, <3>1 DEF Agreement
  <2> QED
    BY <2>1, <2>2
<1>18. \A key \in DOMAIN e.idempotency : e.idempotency[key] \in DOMAIN e.messages =>
         key = <<e.messages[e.idempotency[key]].from,
                 e.messages[e.idempotency[key]].to,
                 e.messages[e.idempotency[key]].request>>
  <2> TAKE key \in DOMAIN e.idempotency
  <2>1. e.idempotency[key] = db.idempotency[key] /\ key \in DOMAIN db.idempotency
    BY <1>3
  <2>2. db.idempotency[key] # id
    BY <1>1, <2>1 DEF Tables
  <2> QED
    BY <1>1, <1>5, <2>1, <2>2 DEF Agreement
<1>19. Apart(e)
  <2> SUFFICES ASSUME NEW i \in DOMAIN e.messages, e.messages[i].request # Injected
               PROVE  ~Joins(e.messages[i].from, e.messages[i].to)
    BY DEF Apart
  <2>1. CASE i = id
    BY <1>4, <1>5, <2>1 DEF Addressed
  <2>2. CASE i # id
    BY <1>1, <1>5, <2>2 DEF Apart
  <2> QED
    BY <2>1, <2>2
<1>20. Agreement(e)
  BY <1>14, <1>15, <1>16, <1>17, <1>18 DEF Agreement
<1> QED
  BY <1>3, <1>4, <1>5, <1>12, <1>13, <1>19, <1>20 DEF Sound


LEMMA ParticipantsNames ==
  ASSUME Sound(db), NEW cid
  PROVE  Participants(cid) \subseteq Name /\ IsFiniteSet(Participants(cid))
<1>1. Tables(db) /\ IsFiniteSet(Identities(db))
  BY DEF Sound
<1>2. CASE cid \in DOMAIN db.conversations
  <2>1. db.conversations[cid].names \subseteq Identities(db) /\ Identities(db) \subseteq Name
    BY <1>1, <1>2, NamesOf
  <2> QED
    BY <1>1, <1>2, <2>1, FS_Subset DEF Participants
<1>3. CASE cid \notin DOMAIN db.conversations
  BY <1>3, FS_EmptySet DEF Participants
<1> QED
  BY <1>2, <1>3

\* The scope policy lets no agent send across the two closed scopes.
LEMMA SendersStayApart ==
  ASSUME NamespacesAssumption, server \in {"compat", "strict"},
         legacyScope \in {"personal", "ucla"},
         NEW from \in Name, NEW to \in Name, MaySend(from, to)
  PROVE  ~Joins(from, to)
<1>1. \A n \in ControlPlane : ScopeOfName(n) = "none"
  BY DEF NamespacesAssumption, ScopeOfName
<1>2. from # Nobody
  BY DEF Name
<1>3. isControlPlaneAgent(server, to) \/ CanAccess(from, to)
  BY DEF MaySend
<1>4. CASE isControlPlaneAgent(server, to) \/ isControlPlaneAgent(server, from)
  BY <1>1, <1>4 DEF isControlPlaneAgent, Joins
<1>5. CASE ~isControlPlaneAgent(server, to) /\ ~isControlPlaneAgent(server, from)
  <2>1. CanAccess(from, to)
    BY <1>3, <1>5
  <2>2. CASE scopeOfName(server, to) = "shared"
    BY <2>2 DEF scopeOfName, Joins
  <2>3. CASE scopeOfName(server, to) # "shared"
    <3>1. scopeOfName(server, to) \in {scopeOfName(server, from)} \ {"none"}
      BY <1>2, <1>5, <2>1, <2>3
         DEF CanAccess, agentCanAccessName, agentAllowedScopes
    <3> QED
      BY <3>1 DEF scopeOfName, Joins
  <2> QED
    BY <2>2, <2>3
<1> QED
  BY <1>4, <1>5

\* The receipt of the message just accepted.
LEMMA ReceiptSound ==
  ASSUME NEW e, Sound(e), NEW from \in Name, NEW to \in Name, NEW r \in RequestIDs,
         e.nextMessageID >= 1, e.nextMessageID \in DOMAIN e.messages,
         e.messages[e.nextMessageID].from = from,
         e.messages[e.nextMessageID].to = to,
         e.messages[e.nextMessageID].request = r
  PROVE  Sound([e EXCEPT !.idempotency = Put(@, <<from, to, r>>, e.nextMessageID)])
<1> DEFINE key == <<from, to, r>>
           receipts == Put(e.idempotency, key, e.nextMessageID)
           f == [e EXCEPT !.idempotency = receipts]
<1>1. /\ IsDatabase(e) /\ e.nextMessageID \in Nat
      /\ e.idempotency \in [DOMAIN e.idempotency -> 1..e.nextMessageID]
      /\ DOMAIN e.idempotency \subseteq Name \X Name \X RequestIDs
  BY DEF Sound, Tables, IsDatabase
<1>2. /\ DOMAIN receipts = DOMAIN e.idempotency \cup {key}
      /\ receipts[key] = e.nextMessageID
      /\ \A k \in DOMAIN e.idempotency : k # key => receipts[k] = e.idempotency[k]
  BY DEF Put
<1>3. receipts \in [DOMAIN receipts -> 1..e.nextMessageID]
  BY <1>1 DEF Put
<1> HIDE DEF receipts
<1>4. /\ IsDatabase(f)
      /\ f.agents = e.agents /\ f.messages = e.messages
      /\ f.conversations = e.conversations /\ f.deliveries = e.deliveries
      /\ f.cursors = e.cursors /\ f.idempotency = receipts
      /\ f.nextMessageID = e.nextMessageID
  BY <1>1 DEF IsDatabase
<1> HIDE DEF f
<1>5. DOMAIN receipts \subseteq Name \X Name \X RequestIDs
  BY <1>1, <1>2
<1>6. Tables(f)
  BY <1>3, <1>4, <1>5 DEF Sound, Tables, IsDatabase
<1>7. IsFiniteSet(Identities(f))
  <2>1. IsFiniteSet({from, to})
    <3>1. IsFiniteSet({from} \cup {to})
      BY FS_Singleton, FS_Union
    <3>2. {from, to} = {from} \cup {to}
      OBVIOUS
    <3> QED
      BY <3>1, <3>2
  <2>2. ASSUME NEW n, Occurs(n, f)
        PROVE  Occurs(n, e) \/ n \in {from, to}
    <3>1. ASSUME NEW k \in DOMAIN f.idempotency, n \in {k[1], k[2]}
          PROVE  Occurs(n, e) \/ n \in {from, to}
      <4>1. CASE k = key
        BY <3>1, <4>1
      <4>2. CASE k # key
        BY <1>2, <1>4, <3>1, <4>2 DEF Occurs
      <4> QED
        BY <4>1, <4>2
    <3>2. CASE ~\E k \in DOMAIN f.idempotency : n \in {k[1], k[2]}
      BY <1>4, <2>2, <3>2 DEF Occurs
    <3> QED
      BY <3>1, <3>2
  <2> QED
    BY <2>1, <2>2, StaysFinite DEF Sound
<1>8. \A k \in DOMAIN f.idempotency : f.idempotency[k] \in DOMAIN f.messages =>
        k = <<f.messages[f.idempotency[k]].from, f.messages[f.idempotency[k]].to,
              f.messages[f.idempotency[k]].request>>
  <2> TAKE k \in DOMAIN f.idempotency
  <2>1. CASE k = key
    BY <1>2, <1>4, <2>1
  <2>2. CASE k # key
    BY <1>2, <1>4, <2>2 DEF Sound, Agreement
  <2> QED
    BY <2>1, <2>2
<1>9. Agreement(f) /\ Apart(f)
  BY <1>4, <1>8 DEF Sound, Agreement, Apart
<1> QED
  BY <1>6, <1>7, <1>9 DEF Sound, f, receipts


LEMMA SendSound ==
  ASSUME NamespacesAssumption, Sound(db), server \in {"compat", "strict"},
         legacyScope \in {"personal", "ucla"},
         NEW from \in Names, NEW to \in Names, NEW r \in RequestIDs,
         NEW cid \in ConversationIDs, SendMessage(from, to, r, cid)
  PROVE  Sound(db')
<1> DEFINE conversation == [names |-> Participants(cid) \cup {from, to}, array |-> TRUE]
           e == Accept(NextID, from, to, cid, r, conversation)
           key == <<from, to, r>>
<1>1. /\ from \in Name /\ to \in Name /\ to # Nobody
      /\ r # Injected
  BY DEF NamespacesAssumption, Name
<1>2. ~Joins(from, to)
  BY <1>1, SendersStayApart DEF SendMessage
<1>3. /\ conversation.names = Participants(cid) \cup {from, to}
      /\ conversation \in Conversation /\ IsFiniteSet(conversation.names)
  <2>1. Participants(cid) \subseteq Name /\ IsFiniteSet(Participants(cid))
    BY ParticipantsNames
  <2>2. IsFiniteSet({from} \cup ({to} \cup Participants(cid)))
    BY <2>1, FS_Singleton, FS_Union
  <2>3. {from} \cup ({to} \cup Participants(cid)) = Participants(cid) \cup {from, to}
    OBVIOUS
  <2> QED
    BY <1>1, <2>1, <2>2, <2>3 DEF Conversation
<1>4. NextID = db.nextMessageID + 1 /\ db.nextMessageID \in Nat
  BY DEF NextID, Sound, Tables
<1>5. db' = [e EXCEPT !.idempotency = Put(@, key, NextID)]
  BY DEF SendMessage, Write
<1> HIDE DEF conversation
<1>6. /\ Sound(e) /\ e.nextMessageID = NextID
      /\ NextID \in DOMAIN e.messages
      /\ e.messages[NextID].from = from /\ e.messages[NextID].to = to
      /\ e.messages[NextID].request = r
  <2>1. {from, to} \subseteq conversation.names /\ Participants(cid) \subseteq conversation.names
    BY <1>3
  <2>2. e = Accept(NextID, from, to, cid, r, conversation)
    OBVIOUS
  <2>3. r \in RequestIDs \cup {Injected} /\ to \in Name \cup {Nobody}
    BY <1>1
  <2>4. Addressed(from, to, r, conversation.names)
    BY <1>1, <1>2, <2>1 DEF Addressed
  <2>5. /\ NextID = db.nextMessageID + 1 /\ from \in Name
        /\ conversation \in Conversation /\ IsFiniteSet(conversation.names)
        /\ Participants(cid) \subseteq conversation.names
    BY <1>1, <1>3, <1>4, <2>1
  <2> HIDE DEF e
  <2> QED
    BY <2>2, <2>3, <2>4, <2>5, AcceptSound
<1>7. NextID >= 1
  BY <1>4
<1> HIDE DEF e
<1>8. Sound([e EXCEPT !.idempotency = Put(@, <<from, to, r>>, e.nextMessageID)])
  BY <1>1, <1>6, <1>7, ReceiptSound
<1> QED
  BY <1>5, <1>6, <1>8

LEMMA InjectSound ==
  ASSUME NamespacesAssumption, Sound(db), NEW human \in Humans,
         NEW to \in Names \cup {Nobody}, NEW cid \in ConversationIDs,
         Inject(human, to, cid)
  PROVE  Sound(db')
<1> DEFINE conversation == [names |-> Participants(cid),
                            array |-> cid \in DOMAIN db.conversations]
<1>1. human \in Name /\ to \in Name \cup {Nobody}
  BY DEF NamespacesAssumption
<1>2. /\ conversation.names = Participants(cid)
      /\ conversation \in Conversation /\ IsFiniteSet(conversation.names)
  <2>1. Participants(cid) \in SUBSET Name /\ IsFiniteSet(Participants(cid))
    BY ParticipantsNames
  <2>2. (cid \in DOMAIN db.conversations) \in BOOLEAN
    OBVIOUS
  <2>3. conversation.names = Participants(cid)
    OBVIOUS
  <2>4. conversation \in Conversation
    BY <2>1, <2>2, Zenon DEF Conversation
  <2> QED
    BY <2>1, <2>3, <2>4
<1>3. NextID = db.nextMessageID + 1
  BY DEF NextID
<1>4. db' = Accept(NextID, human, to, cid, Injected, conversation)
  BY Zenon DEF Inject, Write
<1> HIDE DEF conversation
<1>5. Sound(Accept(NextID, human, to, cid, Injected, conversation))
  <2>1. Addressed(human, to, Injected, conversation.names)
    BY DEF Addressed
  <2> QED
    BY <1>1, <1>2, <1>3, <2>1, AcceptSound
<1> QED
  BY <1>4, <1>5

LEMMA CreateSound ==
  ASSUME NamespacesAssumption, Sound(db), NEW cid \in ConversationIDs,
         NEW names \in Creations, NEW actor, CreateConversation(actor, cid, names)
  PROVE  Sound(db')
<1> DEFINE old == db.conversations
           array == cid \in DOMAIN old => old[cid].array \/ names # {}
           conversation == [names |-> Participants(cid) \cup names,
                            array |-> cid \in DOMAIN old => old[cid].array \/ names # {}]
           conversations == Put(old, cid, conversation)
           e == [db EXCEPT !.conversations = conversations]
<1>1. db' = e
  BY Zenon DEF CreateConversation, Write
<1>2. /\ conversation.names = Participants(cid) \cup names
      /\ conversation \in Conversation
  <2>1. Participants(cid) \cup names \in SUBSET Name
    BY ParticipantsNames DEF NamespacesAssumption
  <2>2. array \in BOOLEAN
    BY Zenon
  <2>3. conversation \in Conversation
    BY <2>1, <2>2, Zenon DEF Conversation
  <2> QED
    BY <2>3
<1> HIDE DEF conversation
<1>3. /\ DOMAIN conversations = DOMAIN old \cup {cid}
      /\ conversations[cid] = conversation
      /\ \A c \in DOMAIN old : c # cid => conversations[c] = old[c]
      /\ conversations \in [DOMAIN conversations -> Conversation]
  <2>1. old \in [DOMAIN old -> Conversation]
    BY DEF Sound, Tables
  <2> HIDE DEF old
  <2> QED
    BY <1>2, <2>1 DEF Put
<1> HIDE DEF conversations
<1>4. /\ IsDatabase(e)
      /\ e.agents = db.agents /\ e.messages = db.messages
      /\ e.conversations = conversations /\ e.deliveries = db.deliveries
      /\ e.cursors = db.cursors /\ e.idempotency = db.idempotency
      /\ e.nextMessageID = db.nextMessageID
  <2>1. IsDatabase(db)
    BY DEF Sound, Tables, IsDatabase
  <2> QED
    BY <2>1 DEF IsDatabase
<1> HIDE DEF e
<1>5. Tables(e)
  BY <1>3, <1>4 DEF Sound, Tables, IsDatabase
<1>6. \A c \in DOMAIN old : c \in DOMAIN e.conversations
                            /\ old[c].names \subseteq e.conversations[c].names
  BY <1>2, <1>3, <1>4 DEF Participants
<1>7. IsFiniteSet(Identities(e))
  <2>1. IsFiniteSet(names)
    BY DEF NamespacesAssumption
  <2>2. ASSUME NEW n, Occurs(n, e)
        PROVE  Occurs(n, db) \/ n \in names
    <3>1. ASSUME NEW c \in DOMAIN e.conversations, n \in e.conversations[c].names
          PROVE  Occurs(n, db) \/ n \in names
      BY <1>2, <1>3, <1>4, <3>1 DEF Occurs, Participants
    <3>2. CASE ~\E c \in DOMAIN e.conversations : n \in e.conversations[c].names
      BY <1>4, <2>2, <3>2 DEF Occurs
    <3> QED
      BY <3>1, <3>2
  <2> QED
    BY <2>1, <2>2, StaysFinite DEF Sound
<1>8. \A i \in DOMAIN e.messages : e.messages[i].request # Injected =>
        /\ e.messages[i].to # Nobody
        /\ e.messages[i].conversation \in DOMAIN e.conversations
        /\ {e.messages[i].from, e.messages[i].to}
             \subseteq e.conversations[e.messages[i].conversation].names
  BY <1>4, <1>6 DEF Sound, Agreement
<1>9. Agreement(e)
  BY <1>4, <1>8 DEF Sound, Agreement
<1>10. Apart(e)
  BY <1>4 DEF Sound, Apart
<1> QED
  BY <1>1, <1>5, <1>7, <1>9, <1>10 DEF Sound


\* Rows that go, and what is left of the tables.
LEMMA PrunedTables ==
  ASSUME NEW d, Sound(d), NEW e, IsDatabase(e),
         e.agents = d.agents, e.cursors = d.cursors, e.nextMessageID = d.nextMessageID,
         NEW i, e.messages = d.messages \/ e.messages = Without(d.messages, i),
         e.deliveries = d.deliveries \/ e.deliveries = Without(d.deliveries, i),
         NEW c, e.conversations = d.conversations
                  \/ e.conversations = Without(d.conversations, c),
         NEW k, e.idempotency = d.idempotency \/ e.idempotency = Without(d.idempotency, k)
  PROVE  Tables(e) /\ IsFiniteSet(Identities(e))
<1>1. /\ DOMAIN e.messages \subseteq DOMAIN d.messages
      /\ \A j \in DOMAIN e.messages : e.messages[j] = d.messages[j]
      /\ e.messages \in [DOMAIN e.messages -> Message]
  <2>1. d.messages \in [DOMAIN d.messages -> Message]
    BY DEF Sound, Tables
  <2> QED
    BY <2>1 DEF Without
<1>2. /\ DOMAIN e.deliveries \subseteq DOMAIN d.deliveries
      /\ \A j \in DOMAIN e.deliveries : e.deliveries[j] = d.deliveries[j]
      /\ e.deliveries \in [DOMAIN e.deliveries -> DeliveryRow]
  <2>1. d.deliveries \in [DOMAIN d.deliveries -> DeliveryRow]
    BY DEF Sound, Tables
  <2> QED
    BY <2>1 DEF Without
<1>3. /\ DOMAIN e.conversations \subseteq DOMAIN d.conversations
      /\ \A j \in DOMAIN e.conversations : e.conversations[j] = d.conversations[j]
      /\ e.conversations \in [DOMAIN e.conversations -> Conversation]
  <2>1. d.conversations \in [DOMAIN d.conversations -> Conversation]
    BY DEF Sound, Tables
  <2> QED
    BY <2>1 DEF Without
<1>4. /\ DOMAIN e.idempotency \subseteq DOMAIN d.idempotency
      /\ e.idempotency \in [DOMAIN e.idempotency -> 1..d.nextMessageID]
  <2>1. d.idempotency \in [DOMAIN d.idempotency -> 1..d.nextMessageID]
    BY DEF Sound, Tables
  <2> QED
    BY <2>1 DEF Without
<1>5. /\ DOMAIN d.messages \cup DOMAIN d.deliveries \subseteq 1..d.nextMessageID
      /\ DOMAIN d.idempotency \subseteq Name \X Name \X RequestIDs
      /\ d.nextMessageID \in Nat /\ d.agents \subseteq Name
      /\ d.cursors \in [DOMAIN d.cursors -> Nat] /\ DOMAIN d.cursors \subseteq Name
  BY DEF Sound, Tables
<1>6. Tables(e)
  <2>1. DOMAIN e.messages \cup DOMAIN e.deliveries \subseteq 1..e.nextMessageID
    BY <1>1, <1>2, <1>5
  <2>2. DOMAIN e.idempotency \subseteq Name \X Name \X RequestIDs
    BY <1>4, <1>5
  <2> QED
    BY <1>1, <1>2, <1>3, <1>4, <1>5, <2>1, <2>2 DEF Tables, IsDatabase
<1>7. ASSUME NEW n, Occurs(n, e)
      PROVE  Occurs(n, d) \/ n \in {}
  <2>1. CASE n \in e.agents \cup DOMAIN e.cursors
    BY <2>1 DEF Occurs
  <2>2. CASE \E j \in DOMAIN e.conversations : n \in e.conversations[j].names
    BY <1>3, <2>2 DEF Occurs
  <2>3. CASE \E j \in DOMAIN e.messages : n \in {e.messages[j].from, e.messages[j].to}
    BY <1>1, <2>3 DEF Occurs
  <2>4. CASE \E j \in DOMAIN e.deliveries : n = e.deliveries[j].target
    BY <1>2, <2>4 DEF Occurs
  <2>5. CASE \E j \in DOMAIN e.idempotency : n \in {j[1], j[2]}
    BY <1>4, <2>5 DEF Occurs
  <2> QED
    BY <1>7, <2>1, <2>2, <2>3, <2>4, <2>5 DEF Occurs
<1> QED
  BY <1>6, <1>7, StaysFinite, FS_EmptySet DEF Sound

LEMMA PruneReceiptSound ==
  ASSUME Sound(db), NEW key, PruneReceipt(key)
  PROVE  Sound(db')
<1> DEFINE rows == Without(db.idempotency, key)
           e == [db EXCEPT !.idempotency = rows]
<1>1. db' = e
  BY DEF PruneReceipt, Write
<1>2. /\ DOMAIN rows \subseteq DOMAIN db.idempotency
      /\ \A k \in DOMAIN rows : rows[k] = db.idempotency[k]
  BY DEF Without
<1> HIDE DEF rows
<1>3. /\ IsDatabase(e)
      /\ e.agents = db.agents /\ e.messages = db.messages
      /\ e.conversations = db.conversations /\ e.deliveries = db.deliveries
      /\ e.cursors = db.cursors /\ e.idempotency = rows
      /\ e.nextMessageID = db.nextMessageID
  <2>1. IsDatabase(db)
    BY DEF Sound, Tables, IsDatabase
  <2> QED
    BY <2>1 DEF IsDatabase
<1> HIDE DEF e
<1>4. Tables(e) /\ IsFiniteSet(Identities(e))
  BY <1>3, PrunedTables DEF rows
<1>5. Agreement(e) /\ Apart(e)
  BY <1>2, <1>3 DEF Sound, Agreement, Apart
<1> QED
  BY <1>1, <1>4, <1>5 DEF Sound

LEMMA PruneMessageSound ==
  ASSUME Sound(db), NEW id, PruneMessage(id)
  PROVE  Sound(db')
<1> DEFINE rows == Without(db.messages, id)
           deliveries == Without(db.deliveries, id)
           e == [db EXCEPT !.messages = rows, !.deliveries = deliveries]
<1>1. db' = e
  BY DEF PruneMessage, Write
<1>2. /\ DOMAIN rows = DOMAIN db.messages \ {id}
      /\ \A i \in DOMAIN rows : rows[i] = db.messages[i]
      /\ DOMAIN deliveries = DOMAIN db.deliveries \ {id}
      /\ \A i \in DOMAIN deliveries : deliveries[i] = db.deliveries[i]
  BY DEF Without
<1> HIDE DEF rows, deliveries
<1>3. /\ IsDatabase(e)
      /\ e.agents = db.agents /\ e.messages = rows
      /\ e.conversations = db.conversations /\ e.deliveries = deliveries
      /\ e.cursors = db.cursors /\ e.idempotency = db.idempotency
      /\ e.nextMessageID = db.nextMessageID
  <2> DEFINE f == [db EXCEPT !.messages = rows]
  <2>1. IsDatabase(db)
    BY DEF Sound, Tables, IsDatabase
  <2>2. /\ IsDatabase(f)
        /\ f.agents = db.agents /\ f.messages = rows
        /\ f.conversations = db.conversations /\ f.deliveries = db.deliveries
        /\ f.cursors = db.cursors /\ f.idempotency = db.idempotency
        /\ f.nextMessageID = db.nextMessageID
    BY <2>1 DEF IsDatabase
  <2>3. e = [f EXCEPT !.deliveries = deliveries]
    BY <2>1 DEF IsDatabase
  <2> HIDE DEF f, e
  <2> QED
    BY <2>2, <2>3 DEF IsDatabase
<1> HIDE DEF e
<1>4. Tables(e) /\ IsFiniteSet(Identities(e))
  BY <1>3, PrunedTables DEF rows, deliveries
<1>5. Agreement(e) /\ Apart(e)
  BY <1>2, <1>3 DEF Sound, Agreement, Apart
<1> QED
  BY <1>1, <1>4, <1>5 DEF Sound

LEMMA PruneConversationSound ==
  ASSUME Sound(db), NEW cid, PruneConversation(cid)
  PROVE  Sound(db')
<1> DEFINE rows == Without(db.conversations, cid)
           e == [db EXCEPT !.conversations = rows]
<1>1. /\ db' = e
      /\ \A i \in DOMAIN db.messages : db.messages[i].conversation # cid
  BY DEF PruneConversation, Write
<1>2. /\ DOMAIN rows = DOMAIN db.conversations \ {cid}
      /\ \A c \in DOMAIN rows : rows[c] = db.conversations[c]
  BY DEF Without
<1> HIDE DEF rows
<1>3. /\ IsDatabase(e)
      /\ e.agents = db.agents /\ e.messages = db.messages
      /\ e.conversations = rows /\ e.deliveries = db.deliveries
      /\ e.cursors = db.cursors /\ e.idempotency = db.idempotency
      /\ e.nextMessageID = db.nextMessageID
  <2>1. IsDatabase(db)
    BY DEF Sound, Tables, IsDatabase
  <2> QED
    BY <2>1 DEF IsDatabase
<1> HIDE DEF e
<1>4. Tables(e) /\ IsFiniteSet(Identities(e))
  BY <1>3, PrunedTables DEF rows
<1>5. Agreement(e) /\ Apart(e)
  BY <1>1, <1>2, <1>3 DEF Sound, Agreement, Apart
<1> QED
  BY <1>1, <1>4, <1>5 DEF Sound


\* A renaming keeps the number of identities.
LEMMA RenamingCounts ==
  ASSUME NEW S, IsFiniteSet(S), NEW to, Renames(to, S), NEW T, T = {to[n] : n \in S}
  PROVE  IsFiniteSet(T) /\ Cardinality(T) = Cardinality(S)
<1> DEFINE f == [n \in S |-> to[n]]
<1>1. \A n, k \in S : to[n] = to[k] => n = k
  BY DEF Renames
<1>2. f \in Bijection(S, T)
  <2>1. f \in [S -> T] /\ \A n \in S : f[n] = to[n]
    OBVIOUS
  <2> HIDE DEF f
  <2>2. f \in Injection(S, T)
    BY <1>1, <2>1 DEF Injection, IsInjective
  <2>3. f \in Surjection(S, T)
    BY <2>1 DEF Surjection
  <2> QED
    BY <2>2, <2>3 DEF Bijection
<1> QED
  BY <1>2, FS_Bijection DEF ExistsBijection

(***************************************************************************)
(* The tool                                                                *)
(***************************************************************************)
\* What a run would do depends on the authority alone.
LEMMA SameAuthority ==
  ASSUME NEW m, NEW d, authority' = authority
  PROVE  (Accepts(m, d) <=> Accepts(m, d)') /\ Renaming(m, d) = Renaming(m, d)'
<1>1. selectMappings(m) = selectMappings(m)'
  BY DEF selectMappings
<1>2. Active(m, d) = Active(m, d)'
  BY <1>1 DEF Active
<1>3. Renaming(m, d) = Renaming(m, d)'
  BY <1>2 DEF Renaming
<1> QED
  BY <1>1, <1>2, <1>3 DEF Accepts, preflight, TargetsFree

LEMMA StaysFollowed ==
  ASSUME Followed, UNCHANGED <<config, db, undo>>
  PROVE  Followed'
<1>1. authority' = authority /\ db' = db /\ undo' = undo
  BY DEF config
<1>2. CASE undo = NoRun
  BY <1>1, <1>2 DEF Followed
<1>3. CASE undo # NoRun
  <2>1. PICK m, d : m = undo.manifest /\ d = undo.before
    OBVIOUS
  <2>2. /\ undo = [before |-> d, manifest |-> m]
        /\ Parsed(m) /\ Tables(d) /\ Accepts(m, d)
        /\ db = applyPlan(Renaming(m, d), d)
    BY <1>3, <2>1 DEF Followed
  <2>3. Accepts(m, d)' /\ Renaming(m, d) = Renaming(m, d)'
    BY <1>1, <2>2, SameAuthority
  <2>4. m = undo'.manifest /\ d = undo'.before
    BY <1>1, <2>1
  <2> QED
    BY <1>1, <2>2, <2>3, <2>4 DEF Followed
<1> QED
  BY <1>2, <1>3


\* The rows of an inverse.
LEMMA InverseRows ==
  ASSUME NEW m, m \subseteq ManifestRow
  PROVE  /\ InvertManifest(m) \subseteq ManifestRow
         /\ \A q \in InvertManifest(m) : \E r \in m :
              /\ q.source = r.target /\ q.target = r.source
              /\ q.authority = r.authority /\ q.disposition = r.disposition
              /\ q.controlPlane = r.controlPlane
         /\ \A r \in m : \E q \in InvertManifest(m) :
              /\ q.source = r.target /\ q.target = r.source
              /\ q.authority = r.authority /\ q.disposition = r.disposition
              /\ q.controlPlane = r.controlPlane
<1> DEFINE Turned(r) == [r EXCEPT !.source = r.target, !.target = r.source]
<1>1. ASSUME NEW r \in m
      PROVE  /\ Turned(r) \in ManifestRow
             /\ Turned(r).source = r.target /\ Turned(r).target = r.source
             /\ Turned(r).authority = r.authority
             /\ Turned(r).disposition = r.disposition
             /\ Turned(r).controlPlane = r.controlPlane
  <2>1. r \in ManifestRow
    OBVIOUS
  <2> QED
    BY <2>1 DEF ManifestRow
<1>2. InvertManifest(m) = {Turned(r) : r \in m}
  BY DEF InvertManifest
<1> HIDE DEF Turned
<1> QED
  BY <1>1, <1>2

\* Applying a manifest keeps the scopes apart.
LEMMA AppliedApart ==
  ASSUME NEW d, Sound(d), NEW m, Parsed(m), Accepts(m, d),
         NEW e, Renamed(Renaming(m, d), d, e)
  PROVE  Apart(e)
<1> DEFINE to == Renaming(m, d)
<1> SUFFICES ASSUME NEW i \in DOMAIN e.messages, e.messages[i].request # Injected
             PROVE  ~Joins(e.messages[i].from, e.messages[i].to)
  BY DEF Apart
<1>1. /\ i \in DOMAIN d.messages /\ d.messages[i].request # Injected
      /\ e.messages[i].from = to[d.messages[i].from]
      /\ e.messages[i].to = to[d.messages[i].to]
  BY RenamedColumns
<1> DEFINE c == d.messages[i].conversation
           names == d.conversations[c].names
<1>2. c \in DOMAIN d.conversations /\ d.messages[i].from \in names /\ d.messages[i].to \in names
  BY <1>1 DEF Sound, Agreement
<1>3. ~Mixed(to, names)
  BY <1>2 DEF Accepts, preflight
<1> HIDE DEF to, c, names
<1> QED
  BY <1>1, <1>2, <1>3 DEF Mixed, Joins

LEMMA RunSound ==
  ASSUME Sound(db), NEW m, m \subseteq ManifestRow, Run(m)
  PROVE  /\ Parsed(m) /\ Accepts(m, db)
         /\ Renames(Renaming(m, db), Identities(db))
         /\ Renamed(Renaming(m, db), db, db')
         /\ Sound(db') /\ Followed'
<1>1. /\ Accepts(m, db) /\ db' = applyPlan(Renaming(m, db), db)
      /\ undo' = [before |-> db, manifest |-> m]
      /\ authority' = authority
  BY DEF Run, config
<1>2. Parsed(m)
  BY <1>1 DEF Accepts, Parsed
<1>3. Tables(db)
  BY DEF Sound
<1>4. PICK e : e = db'
  OBVIOUS
<1>5. Renames(Renaming(m, db), Identities(db))
  BY <1>1, <1>2, <1>3, RenamingRenames DEF Accepts, preflight
<1>6. Renamed(Renaming(m, db), db, e)
  BY <1>1, <1>3, <1>4, <1>5, ApplyPlanRenames
<1>7. Tables(e)
  BY <1>3, <1>5, <1>6, RenamedTables
<1>8. Agreement(e)
  BY <1>3, <1>5, <1>6, RenamedAgreement DEF Sound
<1>9. Apart(e)
  BY <1>1, <1>2, <1>6, AppliedApart
<1>10. IsFiniteSet(Identities(e))
  <2>1. Identities(e) = {Renaming(m, db)[n] : n \in Identities(db)}
    BY <1>3, <1>5, <1>6, RenamedIdentities
  <2> QED
    BY <1>5, <2>1, RenamingCounts DEF Sound
<1>11. Followed'
  <2>1. PICK d : d = db
    OBVIOUS
  <2>2. Accepts(m, d)' /\ Renaming(m, d) = Renaming(m, d)'
    BY <1>1, <2>1, SameAuthority
  <2>3. m = undo'.manifest /\ d = undo'.before
    BY <1>1, <2>1
  <2>4. undo' = [before |-> undo'.before, manifest |-> undo'.manifest]
    BY <1>1
  <2> QED
    BY <1>1, <1>2, <1>3, <2>1, <2>2, <2>3, <2>4 DEF Followed
<1> QED
  BY <1>1, <1>2, <1>4, <1>5, <1>6, <1>7, <1>8, <1>9, <1>10, <1>11 DEF Sound


(***************************************************************************)
(* The invariant                                                           *)
(***************************************************************************)
LEMMA NamespacesInvInit ==
  ASSUME NamespacesAssumption, NamespacesInit
  PROVE  NamespacesInv
<1>1. Sound(db)
  BY EmptySound DEF NamespacesInit
<1>2. Parsed(manifest)
  BY DEF NamespacesInit, NamespacesAssumption, Parsed
<1> QED
  BY <1>1, <1>2 DEF NamespacesInit, NamespacesInv, Sound, Followed, Servers

\* A write of the bus, which only a running server makes.
LEMMA WritesSound ==
  ASSUME NamespacesAssumption, NamespacesInv, NamespacesNext, undo' # undo \/ db' # db,
         ~Run(manifest), ~Run(InvertManifest(manifest))
  PROVE  /\ server # "stopped" /\ server' = server /\ undo' = NoRun /\ Sound(db')
         /\ UNCHANGED config
<1>1. Sound(db)
  BY DEF NamespacesInv, Sound
<1>2. \A d : Write(d) => /\ server # "stopped" /\ server' = server /\ undo' = NoRun
                         /\ UNCHANGED config /\ db' = d
  BY DEF Write
<1>3. ASSUME server # "stopped"
      PROVE  server \in {"compat", "strict"} /\ legacyScope \in {"personal", "ucla"}
  BY <1>3 DEF NamespacesInv, Servers
<1>4. ASSUME NEW a \in Names, RegisterAgent(a)
      PROVE  server # "stopped" /\ server' = server /\ undo' = NoRun /\ Sound(db')
             /\ UNCHANGED config
  <2>1. Write([db EXCEPT !.agents = @ \cup {a}])
    BY <1>4 DEF RegisterAgent
  <2>2. a \in Name
    BY DEF NamespacesAssumption
  <2> QED
    BY <1>1, <1>2, <2>1, <2>2, RegisterSound
<1>5. ASSUME NEW from \in Names, NEW to \in Names, NEW r \in RequestIDs,
             NEW cid \in ConversationIDs, SendMessage(from, to, r, cid)
      PROVE  server # "stopped" /\ server' = server /\ undo' = NoRun /\ Sound(db')
             /\ UNCHANGED config
  <2>1. server # "stopped" /\ server' = server /\ undo' = NoRun /\ UNCHANGED config
    BY <1>5, Zenon DEF SendMessage, Write
  <2> QED
    BY <1>1, <1>3, <1>5, <2>1, SendSound
<1>6. ASSUME NEW h \in Humans, NEW to \in Names \cup {Nobody},
             NEW cid \in ConversationIDs, Inject(h, to, cid)
      PROVE  server # "stopped" /\ server' = server /\ undo' = NoRun /\ Sound(db')
             /\ UNCHANGED config
  <2>1. server # "stopped" /\ server' = server /\ undo' = NoRun /\ UNCHANGED config
    BY <1>6, Zenon DEF Inject, Write
  <2> QED
    BY <1>1, <1>6, <2>1, InjectSound
<1>7. ASSUME NEW actor, NEW cid \in ConversationIDs, NEW names \in Creations,
             CreateConversation(actor, cid, names)
      PROVE  server # "stopped" /\ server' = server /\ undo' = NoRun /\ Sound(db')
             /\ UNCHANGED config
  <2>1. server # "stopped" /\ server' = server /\ undo' = NoRun /\ UNCHANGED config
    BY <1>7, Zenon DEF CreateConversation, Write
  <2> QED
    BY <1>1, <1>7, <2>1, CreateSound
<1>8. ASSUME NEW key, PruneReceipt(key)
      PROVE  server # "stopped" /\ server' = server /\ undo' = NoRun /\ Sound(db')
             /\ UNCHANGED config
  BY <1>1, <1>2, <1>8, PruneReceiptSound DEF PruneReceipt
<1>9. ASSUME NEW id, PruneMessage(id)
      PROVE  server # "stopped" /\ server' = server /\ undo' = NoRun /\ Sound(db')
             /\ UNCHANGED config
  BY <1>1, <1>2, <1>9, PruneMessageSound DEF PruneMessage
<1>10. ASSUME NEW cid, PruneConversation(cid)
       PROVE  server # "stopped" /\ server' = server /\ undo' = NoRun /\ Sound(db')
              /\ UNCHANGED config
  BY <1>1, <1>2, <1>10, PruneConversationSound DEF PruneConversation
<1>11. ~Stop /\ \A mode : ~Start(mode)
  BY DEF Start, Stop
<1> QED
  BY <1>4, <1>5, <1>6, <1>7, <1>8, <1>9, <1>10, <1>11 DEF NamespacesNext

\* A run of the tool, with the manifest or with its inverse.
LEMMA RunsSound ==
  ASSUME NamespacesInv, NEW m, m \in {manifest, InvertManifest(manifest)}, Run(m)
  PROVE  /\ Parsed(m) /\ Accepts(m, db)
         /\ Renames(Renaming(m, db), Identities(db))
         /\ Renamed(Renaming(m, db), db, db')
         /\ Sound(db') /\ Followed' /\ UNCHANGED <<server, config>>
<1>1. m \subseteq ManifestRow
  BY InverseRows DEF NamespacesInv, Parsed
<1>2. Sound(db)
  BY DEF NamespacesInv, Sound
<1>3. UNCHANGED <<server, config>>
  BY DEF Run
<1> QED
  BY <1>1, <1>2, <1>3, RunSound

LEMMA NamespacesInvNext ==
  ASSUME NamespacesAssumption, NamespacesInv, [NamespacesNext]_namespacesVars
  PROVE  NamespacesInv'
<1>1. CASE Run(manifest) \/ Run(InvertManifest(manifest))
  <2>1. Sound(db') /\ Followed' /\ UNCHANGED <<server, config>>
    BY <1>1, RunsSound
  <2> QED
    BY <2>1 DEF NamespacesInv, Sound, config
<1>2. CASE ~Run(manifest) /\ ~Run(InvertManifest(manifest)) /\ (undo' # undo \/ db' # db)
  <2>1. NamespacesNext
    BY <1>2 DEF namespacesVars
  <2>2. /\ server # "stopped" /\ server' = server /\ undo' = NoRun /\ Sound(db')
        /\ UNCHANGED config
    BY <1>2, <2>1, WritesSound
  <2> QED
    BY <2>2 DEF NamespacesInv, Sound, Followed, config
<1>3. CASE undo' = undo /\ db' = db
  <2>1. UNCHANGED config /\ server' \in Servers
    <3>1. CASE UNCHANGED <<server, config>>
      BY <3>1 DEF NamespacesInv
    <3>2. CASE \E mode \in {"compat", "strict"} : Start(mode)
      BY <3>2 DEF Start, Servers
    <3>3. CASE Stop
      BY <3>3 DEF Stop, Servers
    <3>4. \A d : Write(d) => UNCHANGED <<server, config>>
      BY DEF Write
    <3>5. \A m : Run(m) => UNCHANGED <<server, config>>
      BY DEF Run
    <3>6. CASE NamespacesNext /\ ~Stop /\ ~\E mode \in {"compat", "strict"} : Start(mode)
      BY <3>1, <3>4, <3>5, <3>6 DEF NamespacesNext, RegisterAgent, SendMessage, Inject,
         CreateConversation, PruneReceipt, PruneMessage, PruneConversation
    <3> QED
      BY <3>1, <3>2, <3>3, <3>6 DEF namespacesVars
  <2>2. Followed'
    BY <1>3, <2>1, StaysFollowed DEF NamespacesInv
  <2> QED
    BY <1>3, <2>1, <2>2 DEF NamespacesInv, config
<1> QED
  BY <1>1, <1>2, <1>3

THEOREM NamespacesInvariant == NamespacesSpec => []NamespacesInv
<1>1. NamespacesInit => NamespacesInv
  BY NamespacesAssumption, NamespacesInvInit
<1>2. NamespacesInv /\ [NamespacesNext]_namespacesVars => NamespacesInv'
  BY NamespacesAssumption, NamespacesInvNext
<1> QED
  BY <1>1, <1>2, PTL DEF NamespacesSpec


(***************************************************************************)
(* The properties                                                          *)
(***************************************************************************)

(* Renaming or not, the tables agree on who a message is from and to: its  *)
(* delivery, its receipt, the cursor of its target and the participants of *)
(* its conversation (applyPlan, persistAcceptance, pruneDB).               *)
THEOREM TablesAgree == NamespacesSpec => []ReferencesAgree
<1>1. NamespacesInv => ReferencesAgree
  <2> SUFFICES ASSUME NamespacesInv PROVE ReferencesAgree
    OBVIOUS
  <2>1. Agreement(db)
    BY DEF NamespacesInv
  <2>2. ASSUME NEW i \in DOMAIN db.messages, db.messages[i].to # Nobody
        PROVE  /\ db.deliveries[i].target = db.messages[i].to
               /\ db.deliveries[i].seq < db.cursors[db.messages[i].to]
    <3>1. i \in DOMAIN db.deliveries /\ db.deliveries[i].target = db.messages[i].to
      BY <2>1, <2>2 DEF Agreement
    <3>2. db.deliveries[i].seq < db.cursors[db.deliveries[i].target]
      BY <2>1, <3>1 DEF Agreement
    <3> QED
      BY <3>1, <3>2
  <2>3. ASSUME NEW i \in DOMAIN db.messages, db.messages[i].request # Injected
        PROVE  {db.messages[i].from, db.messages[i].to}
                 \subseteq db.conversations[db.messages[i].conversation].names
    BY <2>1, <2>3 DEF Agreement
  <2>4. /\ \A i, j \in DOMAIN db.deliveries : db.deliveries[i] = db.deliveries[j] => i = j
        /\ \A key \in DOMAIN db.idempotency : db.idempotency[key] \in DOMAIN db.messages =>
             key = <<db.messages[db.idempotency[key]].from,
                     db.messages[db.idempotency[key]].to,
                     db.messages[db.idempotency[key]].request>>
    BY <2>1 DEF Agreement
  <2> QED
    BY <2>2, <2>3, <2>4 DEF ReferencesAgree
<1> QED
  BY <1>1, NamespacesInvariant, PTL

(* Neither the scope policy of the bus nor a run of the tool lets a message*)
(* of an agent join a personal name with a ucla name (agentCanAccessName,  *)
(* preflight).                                                             *)
THEOREM ApartForever == NamespacesSpec => []ScopesStayApart
<1>1. NamespacesInv => ScopesStayApart
  BY DEF NamespacesInv, Apart, Joins, ScopesStayApart
<1> QED
  BY <1>1, NamespacesInvariant, PTL

(* Run never makes one identity out of two: what it renames keeps its      *)
(* number (preflight refuses targets in use, ParseManifest refuses targets *)
(* used twice).                                                            *)
THEOREM NothingMerged == NamespacesSpec => NoIdentityMerged
<1>1. ASSUME NamespacesInv, [NamespacesNext]_namespacesVars, server = "stopped"
      PROVE  Cardinality(Identities(db')) = Cardinality(Identities(db))
  <2>1. CASE Run(manifest) \/ Run(InvertManifest(manifest))
    <3>1. PICK m \in {manifest, InvertManifest(manifest)} : Run(m)
      BY <2>1
    <3>2. PICK e : e = db'
      OBVIOUS
    <3>3. Renames(Renaming(m, db), Identities(db)) /\ Renamed(Renaming(m, db), db, e)
      BY <1>1, <3>1, <3>2, RunsSound
    <3>4. Tables(db) /\ IsFiniteSet(Identities(db))
      BY <1>1 DEF NamespacesInv
    <3>5. Identities(e) = {Renaming(m, db)[n] : n \in Identities(db)}
      BY <3>3, <3>4, RenamedIdentities
    <3> QED
      BY <3>2, <3>3, <3>4, <3>5, RenamingCounts
  <2>2. CASE ~Run(manifest) /\ ~Run(InvertManifest(manifest))
    <3>1. CASE db' = db
      BY <3>1
    <3>2. CASE db' # db
      BY <1>1, <2>2, <3>2, NamespacesAssumption, WritesSound DEF namespacesVars
    <3> QED
      BY <3>1, <3>2
  <2> QED
    BY <2>1, <2>2
<1>2. NamespacesInv /\ [NamespacesNext]_namespacesVars =>
        [server = "stopped" =>
           Cardinality(Identities(db')) = Cardinality(Identities(db))]_namespacesVars
  BY <1>1
<1> QED
  BY <1>2, NamespacesInvariant, PTL DEF NamespacesSpec, NoIdentityMerged


(***************************************************************************)
(* The way back                                                            *)
(***************************************************************************)
\* An inverse parses if the manifest does.
LEMMA InverseParses ==
  ASSUME NEW m, Parsed(m)
  PROVE  Parsed(InvertManifest(m))
<1> DEFINE b == InvertManifest(m)
           Turns(q, r) == /\ q.source = r.target /\ q.target = r.source
                          /\ q.authority = r.authority
                          /\ q.disposition = r.disposition
                          /\ q.controlPlane = r.controlPlane
<1>1. m \subseteq ManifestRow
  BY DEF Parsed
<1>2. /\ b \subseteq ManifestRow
      /\ \A q \in b : \E r \in m : Turns(q, r)
      /\ \A r \in m : \E q \in b : Turns(q, r)
  BY <1>1, InverseRows
<1> HIDE DEF b
<1>3. b # {}
  BY <1>2 DEF Parsed, ParseManifest
<1>4. ASSUME NEW q \in b
      PROVE  parseManifestRow(q)
  <2>1. PICK r \in m : Turns(q, r)
    BY <1>2
  <2>2. parseManifestRow(r)
    BY DEF Parsed, ParseManifest
  <2> QED
    BY <2>1, <2>2 DEF parseManifestRow, validateMapping, ForwardRow
<1>5. ASSUME NEW q \in b, NEW p \in b, q.authority = p.authority,
             q.source = p.source \/ q.target = p.target
      PROVE  q = p
  <2>1. PICK r \in m : Turns(q, r)
    BY <1>2
  <2>2. PICK s \in m : Turns(p, s)
    BY <1>2
  <2>3. r = s
    BY <1>5, <2>1, <2>2, RowsUnique
  <2> QED
    BY <1>2, <2>1, <2>2, <2>3 DEF ManifestRow
<1>6. ASSUME NEW q \in b, NEW r \in m, Turns(q, r), r.disposition = "split"
      PROVE  LegacyID(q) = LegacyID(r)
  <2>1. /\ r.source \in Name /\ r.target \in Name /\ r.authority \in Authorities
        /\ validateMapping(r)
    BY ParsedRow DEF Parsed, ParseManifest, parseManifestRow
  <2>2. \/ PrefixedBy(r.authority, r.target, r.source)
        \/ PrefixedBy(r.authority, r.source, r.target)
    BY <1>6, <2>1 DEF validateMapping, ForwardRow
  <2>3. hasExplicitScope(r.source) <=> ~hasExplicitScope(r.target)
    BY <2>1, <2>2, PrefixedName
  <2> QED
    BY <1>6, <2>3 DEF LegacyID
<1>7. ASSUME NEW q \in b, q.disposition = "split", NEW auth \in Authorities
      PROVE  \E p \in b : /\ p.disposition = "split" /\ p.authority = auth
                          /\ LegacyID(p) = LegacyID(q)
  <2>1. PICK r \in m : Turns(q, r)
    BY <1>2
  <2>2. PICK s \in m : /\ s.disposition = "split" /\ s.authority = auth
                       /\ LegacyID(s) = LegacyID(r)
    BY <1>7, <2>1 DEF Parsed, ParseManifest, validateSplitPairs
  <2>3. PICK p \in b : Turns(p, s)
    BY <1>2
  <2>4. LegacyID(q) = LegacyID(r) /\ LegacyID(p) = LegacyID(s)
    BY <1>6, <1>7, <2>1, <2>2, <2>3
  <2> QED
    BY <2>2, <2>3, <2>4
<1>8. validateSplitPairs(b)
  BY <1>7 DEF validateSplitPairs
<1> QED
  BY <1>2, <1>3, <1>4, <1>5, <1>8 DEF Parsed, ParseManifest, b

\* Renaming there and back is exact.
LEMMA RoundTrip ==
  ASSUME NEW d, Tables(d), NEW to, NEW e, Renamed(to, d, e),
         NEW back, NEW g, Renamed(back, e, g),
         \A n \in Identities(d) \cup {Nobody} : back[to[n]] = n
  PROVE  g = d
<1>1. /\ d.agents \subseteq Identities(d)
      /\ DOMAIN d.cursors \subseteq Identities(d)
      /\ \A c \in DOMAIN d.conversations : d.conversations[c].names \subseteq Identities(d)
      /\ \A i \in DOMAIN d.messages :
           /\ d.messages[i].from \in Identities(d)
           /\ d.messages[i].to \in Identities(d) \cup {Nobody}
      /\ \A i \in DOMAIN d.deliveries : d.deliveries[i].target \in Identities(d)
      /\ \A k \in DOMAIN d.idempotency : k[1] \in Identities(d) /\ k[2] \in Identities(d)
  BY NamesOf
<1>2. g.agents = d.agents
  <2>1. e.agents = {to[a] : a \in d.agents} /\ g.agents = {back[a] : a \in e.agents}
    BY DEF Renamed
  <2> QED
    BY <1>1, <2>1
<1>3. g.messages = d.messages
  <2>1. ASSUME NEW i \in DOMAIN d.messages
        PROVE  g.messages[i] = d.messages[i]
    <3>1. d.messages[i] \in Message
      BY DEF Tables
    <3>2. d.messages[i] = [from |-> d.messages[i].from, to |-> d.messages[i].to,
                           conversation |-> d.messages[i].conversation,
                           request |-> d.messages[i].request]
      BY <3>1 DEF Message
    <3>3. i \in DOMAIN e.messages
      BY RenamedColumns
    <3>4. g.messages[i] =
            [from |-> back[e.messages[i].from], to |-> back[e.messages[i].to],
             conversation |-> e.messages[i].conversation,
             request |-> e.messages[i].request]
      BY <3>3 DEF Renamed
    <3>5. /\ e.messages[i].from = to[d.messages[i].from]
          /\ e.messages[i].to = to[d.messages[i].to]
          /\ e.messages[i].conversation = d.messages[i].conversation
          /\ e.messages[i].request = d.messages[i].request
      BY RenamedColumns
    <3>6. /\ back[to[d.messages[i].from]] = d.messages[i].from
          /\ back[to[d.messages[i].to]] = d.messages[i].to
      BY <1>1
    <3> QED
      BY <3>2, <3>4, <3>5, <3>6
  <2>2. DOMAIN g.messages = DOMAIN d.messages /\ IsTable(g.messages)
    BY DEF Renamed
  <2>3. d.messages \in [DOMAIN d.messages -> Message]
    BY DEF Tables
  <2> QED
    BY <2>1, <2>2, <2>3 DEF IsTable
<1>4. g.conversations = d.conversations
  <2>1. ASSUME NEW c \in DOMAIN d.conversations
        PROVE  g.conversations[c] = d.conversations[c]
    <3>1. d.conversations[c] \in Conversation
      BY DEF Tables
    <3>2. d.conversations[c] = [names |-> d.conversations[c].names,
                                array |-> d.conversations[c].array]
      BY <3>1 DEF Conversation
    <3>3. c \in DOMAIN e.conversations
      BY RenamedColumns
    <3>4. g.conversations[c] = [names |-> {back[n] : n \in e.conversations[c].names},
                                array |-> e.conversations[c].array]
      BY <3>3 DEF Renamed
    <3>5. /\ e.conversations[c].names = {to[k] : k \in d.conversations[c].names}
          /\ e.conversations[c].array = d.conversations[c].array
      BY RenamedColumns
    <3>6. {back[n] : n \in e.conversations[c].names} = d.conversations[c].names
      BY <1>1, <3>5
    <3> QED
      BY <3>2, <3>4, <3>5, <3>6
  <2>2. DOMAIN g.conversations = DOMAIN d.conversations /\ IsTable(g.conversations)
    BY DEF Renamed
  <2>3. d.conversations \in [DOMAIN d.conversations -> Conversation]
    BY DEF Tables
  <2> QED
    BY <2>1, <2>2, <2>3 DEF IsTable
<1>5. g.deliveries = d.deliveries
  <2>1. ASSUME NEW i \in DOMAIN d.deliveries
        PROVE  g.deliveries[i] = d.deliveries[i]
    <3>1. d.deliveries[i] \in DeliveryRow
      BY DEF Tables
    <3>2. d.deliveries[i] = [target |-> d.deliveries[i].target, seq |-> d.deliveries[i].seq]
      BY <3>1 DEF DeliveryRow
    <3>3. i \in DOMAIN e.deliveries
      BY RenamedColumns
    <3>4. g.deliveries[i] = [target |-> back[e.deliveries[i].target],
                             seq |-> e.deliveries[i].seq]
      BY <3>3 DEF Renamed
    <3>5. /\ e.deliveries[i].target = to[d.deliveries[i].target]
          /\ e.deliveries[i].seq = d.deliveries[i].seq
      BY RenamedColumns
    <3>6. back[to[d.deliveries[i].target]] = d.deliveries[i].target
      BY <1>1
    <3> QED
      BY <3>2, <3>4, <3>5, <3>6
  <2>2. DOMAIN g.deliveries = DOMAIN d.deliveries /\ IsTable(g.deliveries)
    BY DEF Renamed
  <2>3. d.deliveries \in [DOMAIN d.deliveries -> DeliveryRow]
    BY DEF Tables
  <2> QED
    BY <2>1, <2>2, <2>3 DEF IsTable
<1>6. g.cursors = d.cursors
  <2>1. /\ DOMAIN e.cursors = {to[a] : a \in DOMAIN d.cursors}
        /\ \A a \in DOMAIN d.cursors : e.cursors[to[a]] = d.cursors[a]
        /\ DOMAIN g.cursors = {back[a] : a \in DOMAIN e.cursors}
        /\ \A a \in DOMAIN e.cursors : g.cursors[back[a]] = e.cursors[a]
        /\ IsTable(g.cursors)
    BY DEF Renamed
  <2>2. DOMAIN g.cursors = DOMAIN d.cursors
    BY <1>1, <2>1
  <2>3. \A a \in DOMAIN d.cursors : g.cursors[a] = d.cursors[a]
    BY <1>1, <2>1
  <2>4. d.cursors \in [DOMAIN d.cursors -> Nat]
    BY DEF Tables
  <2> QED
    BY <2>1, <2>2, <2>3, <2>4 DEF IsTable
<1>7. g.idempotency = d.idempotency
  <2>1. /\ DOMAIN e.idempotency = {RenamedKey(to, k) : k \in DOMAIN d.idempotency}
        /\ \A k \in DOMAIN d.idempotency :
             e.idempotency[RenamedKey(to, k)] = d.idempotency[k]
        /\ DOMAIN g.idempotency = {RenamedKey(back, k) : k \in DOMAIN e.idempotency}
        /\ \A k \in DOMAIN e.idempotency :
             g.idempotency[RenamedKey(back, k)] = e.idempotency[k]
        /\ IsTable(g.idempotency)
    BY DEF Renamed
  <2>2. ASSUME NEW k \in DOMAIN d.idempotency
        PROVE  RenamedKey(back, RenamedKey(to, k)) = k
    <3>1. k \in Name \X Name \X RequestIDs
      BY DEF Tables
    <3>2. k = <<k[1], k[2], k[3]>>
      BY <3>1
    <3>3. back[to[k[1]]] = k[1] /\ back[to[k[2]]] = k[2]
      BY <1>1
    <3> QED
      BY <3>2, <3>3 DEF RenamedKey
  <2>3. DOMAIN g.idempotency = DOMAIN d.idempotency
    BY <2>1, <2>2
  <2>4. \A k \in DOMAIN d.idempotency : g.idempotency[k] = d.idempotency[k]
    BY <2>1, <2>2
  <2>5. d.idempotency \in [DOMAIN d.idempotency -> 1..d.nextMessageID]
    BY DEF Tables
  <2> QED
    BY <2>1, <2>3, <2>4, <2>5 DEF IsTable
<1>8. /\ e.nextMessageID = d.nextMessageID /\ g.nextMessageID = e.nextMessageID
      /\ g = [agents |-> g.agents, messages |-> g.messages,
              conversations |-> g.conversations, deliveries |-> g.deliveries,
              cursors |-> g.cursors, idempotency |-> g.idempotency,
              nextMessageID |-> e.nextMessageID]
      /\ d = [agents |-> d.agents, messages |-> d.messages,
              conversations |-> d.conversations, deliveries |-> d.deliveries,
              cursors |-> d.cursors, idempotency |-> d.idempotency,
              nextMessageID |-> d.nextMessageID]
  BY DEF Renamed, Tables
<1> QED
  BY <1>2, <1>3, <1>4, <1>5, <1>6, <1>7, <1>8


(* What a run left, read by the inverse: the rows that the inverse has to  *)
(* take back are those that the run carried out, and no name that it would *)
(* restore is in use.                                                      *)
LEMMA InverseActive ==
  ASSUME NEW d, Tables(d), NEW m, Parsed(m), TargetsFree(m, d),
         AlreadyApplied(m, d) = {}, NEW e, Renamed(Renaming(m, d), d, e)
  PROVE  LET to == Renaming(m, d)
             back == Renaming(InvertManifest(m), e)
         IN  /\ TargetsFree(InvertManifest(m), e)
             /\ \A n \in Identities(d) \cup {Nobody} : back[to[n]] = n
<1> DEFINE to == Renaming(m, d)
           b == InvertManifest(m)
           back == Renaming(b, e)
           A == Active(m, d)
           B == Active(b, e)
           Turns(q, r) == /\ q.source = r.target /\ q.target = r.source
                          /\ q.authority = r.authority
<1>1. /\ Renames(to, Identities(d))
      /\ \A r \in A : to[r.source] = r.target
      /\ \A n \in Identities(d) :
           \/ to[n] = n /\ \A r \in A : r.source # n
           \/ \E r \in A : r.source = n /\ to[n] = r.target
  BY RenamingRenames
<1>2. Identities(e) = {to[n] : n \in Identities(d)}
  BY <1>1, RenamedIdentities
<1>3. /\ \A q \in b : \E r \in m : Turns(q, r)
      /\ \A r \in m : \E q \in b : Turns(q, r)
  BY InverseRows DEF Parsed
<1>4. \A r \in A : /\ r \in m /\ r.authority = authority /\ r.source # r.target
                   /\ r.source \in Identities(d) /\ r.target \notin Identities(d)
  BY DEF Active, selectMappings, TargetsFree
<1>5. \A n : n \in B <=> n \in b /\ n.authority = authority /\ n.source # n.target
                         /\ n.source \in Identities(e)
  <2>1. \A n : n \in selectMappings(b) <=> n \in b /\ n.authority = authority
    BY DEF selectMappings
  <2>2. B = {r \in selectMappings(b) : r.source # r.target /\ r.source \in Identities(e)}
    BY DEF Active
  <2> HIDE DEF B, b
  <2> QED
    BY <2>1, <2>2
<1>6. \A r \in m : r.authority = authority /\ r.source # r.target
                   /\ r.source \in Identities(d) => r \in A
  BY DEF Active, selectMappings
<1>7. \A r \in m : r.authority = authority /\ r.source # r.target
                   /\ r.source \notin Identities(d) => r.target \notin Identities(d)
  BY DEF AlreadyApplied, selectMappings
<1>8. Parsed(b) /\ Tables(e)
  BY <1>1, InverseParses, RenamedTables
<1> HIDE DEF to, b, A, B, back
<1>9. ASSUME NEW q \in B
      PROVE  \E r \in A : Turns(q, r)
  <2>1. PICK r \in m : Turns(q, r)
    BY <1>3, <1>5
  <2>2. /\ r.authority = authority /\ r.source # r.target
        /\ r.target \in Identities(e)
    BY <1>5, <2>1
  <2>3. PICK k \in Identities(d) : r.target = to[k]
    BY <1>2, <2>2
  <2>4. CASE to[k] = k
    BY <1>4, <1>6, <1>7, <2>1, <2>2, <2>3, <2>4
  <2>5. CASE \E p \in A : p.source = k /\ to[k] = p.target
    <3>1. PICK p \in A : to[k] = p.target
      BY <2>5
    <3>2. p = r
      BY <1>4, <2>2, <2>3, <3>1, RowsUnique
    <3> QED
      BY <2>1, <3>1, <3>2
  <2> QED
    BY <1>1, <2>4, <2>5
<1>10. ASSUME NEW q \in B
       PROVE  q.target \notin Identities(e)
  <2>1. PICK r \in A : Turns(q, r)
    BY <1>9
  <2>2. ASSUME NEW n \in Identities(d), to[n] = r.source
        PROVE  FALSE
    <3>1. CASE to[n] = n
      <4>1. n = r.source /\ to[n] # r.target
        BY <1>4, <2>1, <2>2, <3>1
      <4>2. to[r.source] = r.target
        BY <1>1, <2>1
      <4> QED
        BY <4>1, <4>2
    <3>2. CASE \E p \in A : to[n] = p.target
      BY <1>4, <2>2, <3>2
    <3> QED
      BY <1>1, <3>1, <3>2
  <2> QED
    BY <1>2, <2>1, <2>2
<1>11. TargetsFree(b, e)
  BY <1>10 DEF TargetsFree, B
<1>12. /\ Renames(back, Identities(e))
       /\ \A q \in B : back[q.source] = q.target
       /\ \A n \in Identities(e) :
            \/ back[n] = n /\ \A q \in B : q.source # n
            \/ \E q \in B : q.source = n /\ back[n] = q.target
  BY <1>8, <1>11, RenamingRenames DEF back, B
<1>13. ASSUME NEW n \in Identities(d)
       PROVE  back[to[n]] = n
  <2>1. to[n] \in Identities(e)
    BY <1>2
  <2>2. CASE \E r \in A : r.source = n /\ to[n] = r.target
    <3>1. PICK r \in A : r.source = n /\ to[n] = r.target
      BY <2>2
    <3>2. PICK q \in b : Turns(q, r)
      BY <1>3, <1>4, <3>1
    <3>3. q \in B
      BY <1>4, <1>5, <2>1, <3>1, <3>2
    <3> QED
      BY <1>12, <3>1, <3>2, <3>3
  <2>3. CASE to[n] = n
    <3>1. ASSUME NEW q \in B, q.source = n
          PROVE  FALSE
      BY <1>4, <1>9, <3>1
    <3> QED
      BY <1>12, <2>1, <2>3, <3>1
  <2> QED
    BY <1>1, <2>2, <2>3
<1>14. back[to[Nobody]] = Nobody
  BY <1>1, <1>12 DEF Renames
<1> QED
  BY <1>11, <1>13, <1>14 DEF to, back, b

LEMMA InverseAccepted ==
  ASSUME NEW d, Tables(d), NEW m, Parsed(m), Accepts(m, d), Forward(m),
         AlreadyApplied(m, d) = {}, NEW e, e = applyPlan(Renaming(m, d), d)
  PROVE  /\ Accepts(InvertManifest(m), e)
         /\ applyPlan(Renaming(InvertManifest(m), e), e) = d
<1> DEFINE to == Renaming(m, d)
           b == InvertManifest(m)
           back == Renaming(b, e)
           A == Active(m, d)
           Turns(q, r) == /\ q.source = r.target /\ q.target = r.source
                          /\ q.authority = r.authority
                          /\ q.controlPlane = r.controlPlane
<1>1. TargetsFree(m, d)
  BY DEF Accepts, preflight
<1>2. /\ Renames(to, Identities(d))
      /\ \A n \in Identities(d) :
           \/ to[n] = n /\ \A r \in A : r.source # n
           \/ \E r \in A : r.source = n /\ to[n] = r.target
  BY <1>1, RenamingRenames
<1>3. Renamed(to, d, e)
  BY <1>2, ApplyPlanRenames
<1>4. TargetsFree(b, e) /\ \A n \in Identities(d) \cup {Nobody} : back[to[n]] = n
  BY <1>1, <1>3, InverseActive
<1>5. Parsed(b) /\ Tables(e)
  BY <1>2, <1>3, InverseParses, RenamedTables
<1>6. Renames(back, Identities(e))
  BY <1>4, <1>5, RenamingRenames
<1>7. Renamed(back, e, applyPlan(back, e))
  BY <1>5, <1>6, ApplyPlanRenames
<1>8. applyPlan(back, e) = d
  BY <1>3, <1>4, <1>7, RoundTrip
<1>9. Identities(e) = {to[n] : n \in Identities(d)}
  BY <1>2, <1>3, RenamedIdentities
<1>10. /\ \A q \in b : \E r \in m : Turns(q, r)
       /\ \A r \in m : \E q \in b : Turns(q, r)
  BY InverseRows DEF Parsed
<1>11. \A r \in A : /\ r \in selectMappings(m) /\ r.source # r.target
  BY DEF Active
<1>12. \A n : n \in selectMappings(m) <=> n \in m /\ n.authority = authority
  BY DEF selectMappings
<1>13. \A n : n \in selectMappings(b) <=> n \in b /\ n.authority = authority
  BY DEF selectMappings
<1>14. \A n \in Identities(d) : \E r \in selectMappings(m) : n \in {r.source, r.target}
  BY DEF Accepts, preflight
<1> HIDE DEF to, b, A, back
<1>15. \A r \in selectMappings(m) : \E q \in selectMappings(b) : Turns(q, r)
  BY <1>10, <1>12, <1>13
<1>16. selectMappings(b) # {}
  BY <1>15 DEF Accepts
<1>17. \A q \in selectMappings(b) : q.controlPlane => q.source \in ControlPlane
  <2> TAKE q \in selectMappings(b)
  <2>1. PICK r \in selectMappings(m) : Turns(q, r)
    BY <1>10, <1>12, <1>13
  <2>2. r.controlPlane => r.source \in ControlPlane /\ r.source = r.target
    BY <1>12 DEF Accepts, ParseManifest, parseManifestRow, validateMapping
  <2> QED
    BY <2>1, <2>2
<1>18. Identities(e) \subseteq UNION {{q.source, q.target} : q \in selectMappings(b)}
  <2> SUFFICES ASSUME NEW n \in Identities(d)
               PROVE  \E q \in selectMappings(b) : to[n] \in {q.source, q.target}
    BY <1>9
  <2>1. \E r \in selectMappings(m) : to[n] \in {r.source, r.target}
    BY <1>2, <1>11, <1>14
  <2> QED
    BY <1>15, <2>1
<1>19. ASSUME NEW c \in DOMAIN e.conversations
       PROVE  e.conversations[c].array /\ ~Mixed(back, e.conversations[c].names)
  <2> DEFINE names == d.conversations[c].names
  <2>1. /\ c \in DOMAIN d.conversations
        /\ e.conversations[c].array = d.conversations[c].array
        /\ e.conversations[c].names = {to[n] : n \in names}
    BY <1>3, RenamedColumns
  <2>2. names \subseteq Identities(d)
    BY <2>1, NamesOf
  <2>3. d.conversations[c].array /\ ~Mixed(to, names)
    BY <2>1 DEF Accepts, preflight, to
  <2> HIDE DEF names
  <2>4. ASSUME NEW n \in names, hasExplicitScope(n)
        PROVE  to[n] = n
    <3> SUFFICES ASSUME NEW r \in A, r.source = n
                 PROVE  FALSE
      BY <1>2, <2>2
    <3>1. ForwardRow(r)
      BY <1>11, <1>12 DEF Forward
    <3> QED
      BY <2>4, <3>1 DEF ForwardRow, PrefixedBy
  <2>5. ~({"personal", "ucla"} \subseteq {ScopeOfName(n) : n \in names})
    <3> SUFFICES ASSUME NEW s \in {"personal", "ucla"}, NEW n \in names, ScopeOfName(n) = s
                 PROVE  s \in {ScopeOfName(to[k]) : k \in names}
      BY <2>3 DEF Mixed
    <3>1. to[n] = n
      BY <2>4 DEF hasExplicitScope
    <3> QED
      BY <3>1
  <2>6. {ScopeOfName(back[x]) : x \in e.conversations[c].names}
          = {ScopeOfName(n) : n \in names}
    BY <1>4, <2>1, <2>2
  <2> QED
    BY <2>1, <2>3, <2>5, <2>6 DEF Mixed
<1>20. preflight(b, e)
  BY <1>4, <1>18, <1>19 DEF preflight, back
<1>21. Accepts(b, e)
  BY <1>5, <1>16, <1>17, <1>20 DEF Accepts, Parsed
<1> QED
  BY <1>8, <1>21 DEF b, back

(* The inverse of a forward manifest is accepted after its run and brings  *)
(* the database back as it was, row by row (Run with InvertManifest).      *)
THEOREM RunsCanBeUndone == NamespacesSpec => []UndoRestores
<1>1. NamespacesInv => UndoRestores
  <2> SUFFICES ASSUME NamespacesInv, Forward(undo.manifest),
                      AlreadyApplied(undo.manifest, undo.before) = {}
               PROVE  /\ Accepts(InvertManifest(undo.manifest), db)
                      /\ applyPlan(Renaming(InvertManifest(undo.manifest), db), db)
                           = undo.before
    BY DEF UndoRestores
  <2>1. undo # NoRun
    BY DEF Forward, NoRun
  <2>2. /\ Parsed(undo.manifest) /\ Tables(undo.before)
        /\ Accepts(undo.manifest, undo.before)
        /\ db = applyPlan(Renaming(undo.manifest, undo.before), undo.before)
    BY <2>1 DEF NamespacesInv, Followed
  <2> QED
    BY <2>2, InverseAccepted
<1> QED
  BY <1>1, NamespacesInvariant, PTL


(***************************************************************************)
(* Strict mode                                                             *)
(***************************************************************************)
(* What a forward run makes of a name: the authority's prefix before a     *)
(* bare name, or what it was, when it is prefixed already or belongs to    *)
(* the control plane.                                                      *)
LEMMA ForwardNames ==
  ASSUME NEW d, Tables(d), NEW m, Parsed(m), Accepts(m, d), Forward(m),
         NEW n \in Identities(d)
  PROVE  LET k == Renaming(m, d)[n]
         IN  /\ \E r \in m : r.target = k
             /\ \/ /\ k = n /\ (hasExplicitScope(n) \/ n \in ControlPlane)
                \/ /\ ~hasExplicitScope(n) /\ hasExplicitScope(k)
                   /\ ScopeOfName(k) = Prefix(authority) /\ Len(k) > 1
<1> DEFINE k == Renaming(m, d)[n]
           A == Active(m, d)
<1>1. \/ k = n /\ \A r \in A : r.source # n
      \/ \E r \in A : r.source = n /\ k = r.target
  BY RenamingRenames DEF Accepts, preflight
<1>2. \A r \in m : r.source # r.target =>
        /\ ~hasExplicitScope(r.source) /\ hasExplicitScope(r.target)
        /\ ScopeOfName(r.target) = Prefix(r.authority) /\ Len(r.target) > 1
  <2> TAKE r \in m
  <2> HAVE r.source # r.target
  <2>1. PrefixedBy(r.authority, r.target, r.source)
    BY DEF Forward, ForwardRow
  <2> QED
    BY <2>1, ParsedRow, PrefixedName
<1>3. /\ \A r \in A : /\ r \in m /\ r.authority = authority
                      /\ r.source # r.target
      /\ \A r \in selectMappings(m) : /\ r \in m /\ r.authority = authority
                                      /\ r.source # r.target /\ r.source = n => r \in A
  BY DEF Active, selectMappings
<1> HIDE DEF A
<1>4. CASE \E r \in A : r.source = n /\ k = r.target
  <2>1. PICK r \in A : r.source = n /\ k = r.target
    BY <1>4
  <2>2. /\ r \in m /\ ~hasExplicitScope(n) /\ hasExplicitScope(k)
        /\ ScopeOfName(k) = Prefix(authority) /\ Len(k) > 1
    BY <1>2, <1>3, <2>1
  <2> HIDE DEF k
  <2> QED
    BY <2>1, <2>2 DEF k
<1>5. CASE k = n /\ \A r \in A : r.source # n
  <2>1. PICK r \in selectMappings(m) : n \in {r.source, r.target}
    BY DEF Accepts, preflight
  <2>2. r \in m /\ r.target = n
    BY <1>3, <1>5, <2>1
  <2>3. CASE r.source # r.target
    BY <1>2, <1>5, <2>2, <2>3
  <2>4. CASE r.source = r.target
    <3>1. hasExplicitScope(n) \/ r.controlPlane
      BY <2>2, <2>4, ParsedRow
    <3>2. r.controlPlane => n \in ControlPlane
      BY <2>1, <2>2, <2>4 DEF Accepts
    <3> QED
      BY <1>5, <2>2, <3>1, <3>2
  <2> QED
    BY <2>3, <2>4
<1> QED
  BY <1>1, <1>4, <1>5

LEMMA AccessCarriesOver ==
  ASSUME NamespacesAssumption,
         NEW d, Tables(d), NEW m, Parsed(m), Accepts(m, d), Forward(m),
         legacyScope = Prefix(authority), legacyScope \in {"personal", "ucla"},
         NEW grants \in SUBSET (Identities(d) \ ControlPlane),
         NEW a \in Identities(d) \ ControlPlane, NEW b \in Identities(d) \ ControlPlane
  PROVE  agentCanAccessName("compat", grants, a, b)
           <=> agentCanAccessName("strict", {Renaming(m, d)[g] : g \in grants},
                                  Renaming(m, d)[a], Renaming(m, d)[b])
<1> DEFINE to == Renaming(m, d)
           granted == {to[g] : g \in grants}
<1>1. Renames(to, Identities(d))
  BY RenamingRenames DEF Accepts, preflight
<1>2. \A n \in Identities(d) :
        \/ to[n] = n /\ (hasExplicitScope(n) \/ n \in ControlPlane)
        \/ /\ ~hasExplicitScope(n) /\ hasExplicitScope(to[n])
           /\ ScopeOfName(to[n]) = Prefix(authority) /\ Len(to[n]) > 1
  BY ForwardNames
<1> HIDE DEF to
<1>3. \A n \in Identities(d) \ ControlPlane :
        /\ to[n] \notin ControlPlane
        /\ scopeOfName("compat", n) = scopeOfName("strict", to[n])
        /\ scopeOfName("compat", n) # "none"
  <2> TAKE n \in Identities(d) \ ControlPlane
  <2>1. \A k \in ControlPlane : Len(k) = 1
    BY DEF NamespacesAssumption
  <2>2. CASE to[n] = n /\ hasExplicitScope(n)
    BY <2>2 DEF scopeOfName, hasExplicitScope
  <2>3. CASE /\ ~hasExplicitScope(n) /\ hasExplicitScope(to[n])
             /\ ScopeOfName(to[n]) = Prefix(authority) /\ Len(to[n]) > 1
    <3>1. to[n] \notin ControlPlane
      <4> SUFFICES ASSUME to[n] \in ControlPlane PROVE FALSE
        OBVIOUS
      <4>1. Len(to[n]) = 1
        BY <2>1
      <4> QED
        BY <2>3, <4>1
    <3>2. scopeOfName("compat", n) = legacyScope
      BY <2>3 DEF scopeOfName, hasExplicitScope
    <3>3. scopeOfName("strict", to[n]) = legacyScope
      BY <2>3 DEF scopeOfName
    <3> QED
      BY <3>1, <3>2, <3>3
  <2> QED
    BY <1>2, <2>2, <2>3
<1>4. a # Nobody /\ to[a] # Nobody
  BY <1>1, NamesOf DEF Renames
<1>5. a \in grants <=> to[a] \in granted
  BY <1>1 DEF Renames
<1> HIDE DEF granted
<1>6. /\ ~isControlPlaneAgent("compat", a) /\ ~isControlPlaneAgent("strict", to[a])
  BY <1>3 DEF isControlPlaneAgent
<1>7. /\ agentAllowedScopes("compat", a) = {scopeOfName("compat", a)}
      /\ agentAllowedScopes("strict", to[a]) = {scopeOfName("compat", a)}
  BY <1>3, <1>6 DEF agentAllowedScopes
<1>8. agentCanAccessName("compat", grants, a, b)
        <=> IF scopeOfName("compat", b) = "shared" THEN a \in grants
            ELSE scopeOfName("compat", b) \in agentAllowedScopes("compat", a)
  BY <1>4, <1>6 DEF agentCanAccessName
<1>9. agentCanAccessName("strict", granted, to[a], to[b])
        <=> IF scopeOfName("strict", to[b]) = "shared" THEN to[a] \in granted
            ELSE scopeOfName("strict", to[b]) \in agentAllowedScopes("strict", to[a])
  BY <1>4, <1>6 DEF agentCanAccessName
<1> QED
  BY <1>3, <1>5, <1>7, <1>8, <1>9 DEF to, granted

(* After a forward run the bus can be started in strict mode: it accepts   *)
(* every name, the allowlist has every agent that is not retired, and who  *)
(* may reach whom is what it was (ScopePolicy, pinakes-manifest-allowlist).*)
THEOREM ReadyForStrict == NamespacesSpec => []StrictReady
<1>1. NamespacesInv => StrictReady
  <2> DEFINE m == undo.manifest
             d == undo.before
             to == Renaming(m, d)
             ordinary == Identities(d) \ ControlPlane
             grants == SharedGrants \cap ordinary
  <2> SUFFICES ASSUME NamespacesInv, Forward(m)
               PROVE  /\ \A n \in Identities(db) : acceptsName("strict", n)
                      /\ \A a \in db.agents :
                           \/ a \in Allowlist(m)
                           \/ \E r \in m : r.target = a /\ r.disposition = "retire"
                      /\ legacyScope = Prefix(authority) =>
                           \A a, b \in ordinary :
                             agentCanAccessName("compat", grants, a, b)
                               <=> agentCanAccessName("strict", {to[g] : g \in grants},
                                                      to[a], to[b])
    BY DEF StrictReady
  <2>1. undo # NoRun
    BY DEF Forward, NoRun
  <2>2. /\ Parsed(m) /\ Tables(d) /\ Accepts(m, d)
        /\ db = applyPlan(to, d)
    BY <2>1 DEF NamespacesInv, Followed
  <2>3. Renames(to, Identities(d))
    BY <2>2, RenamingRenames DEF Accepts, preflight
  <2> HIDE DEF m, d
  <2>4. Renamed(to, d, db)
    BY <2>2, <2>3, ApplyPlanRenames
  <2>5. Identities(db) = {to[n] : n \in Identities(d)}
    BY <2>2, <2>3, <2>4, RenamedIdentities
  <2>6. /\ db.agents = {to[a] : a \in d.agents} /\ d.agents \subseteq Identities(d)
    BY <2>2, <2>4, NamesOf DEF Renamed
  <2>7. \A n \in Identities(d) :
          /\ \E r \in m : r.target = to[n]
          /\ hasExplicitScope(to[n]) \/ to[n] \in ControlPlane
    BY <2>2, ForwardNames
  <2>8. \A n \in Identities(db) : acceptsName("strict", n)
    BY <2>5, <2>7 DEF acceptsName, isControlPlaneAgent, scopeOfName, hasExplicitScope
  <2>9. \A a \in db.agents : \/ a \in Allowlist(m)
                             \/ \E r \in m : r.target = a /\ r.disposition = "retire"
    BY <2>6, <2>7 DEF Allowlist
  <2>10. ASSUME legacyScope = Prefix(authority), NEW a \in ordinary, NEW b \in ordinary
         PROVE  agentCanAccessName("compat", grants, a, b)
                  <=> agentCanAccessName("strict", {to[g] : g \in grants}, to[a], to[b])
    <3>1. legacyScope \in {"personal", "ucla"}
      BY DEF NamespacesInv
    <3>2. grants \in SUBSET ordinary
      OBVIOUS
    <3> QED
      BY <2>2, <2>10, <3>1, <3>2, NamespacesAssumption, AccessCarriesOver
  <2> QED
    BY <2>8, <2>9, <2>10
<1> QED
  BY <1>1, NamespacesInvariant, PTL
=============================================================================
