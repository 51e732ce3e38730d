----------------------------- MODULE Namespaces -----------------------------
(***************************************************************************)
(* The move to prefixed names: the scope policy of the bus in its compat   *)
(* and strict modes (pkg/bus/scope.go) and the tool that renames the       *)
(* identities of a stopped database by a manifest and back again           *)
(* (internal/nsmigrate), on databases that the bus itself has filled.      *)
(*                                                                         *)
(* A name is the sequence of its labels: "personal.x" is                   *)
(* <<"personal", "x">>.  Handlers are reduced to what they do to the       *)
(* columns that hold names; calls whose writes overlap are the subject of  *)
(* SqliteStore, credentials that of Credentials.                           *)
(***************************************************************************)
EXTENDS Integers, Sequences, FiniteSets

CONSTANTS
  Names,                 \* names that callers use
  Humans,                \* "human:" names, which injections come from
  ControlPlane,          \* CONTROL_PLANE_AGENTS
  SharedGrants,          \* SHARED_GRANT_AGENTS
  Manifests,             \* manifests that operators write: sets of rows
  Creations,             \* participants of CreateConversation
  RequestIDs, ConversationIDs,
  MaxMessages            \* bound of the model

Scopes == {"personal", "ucla", "shared"}
Authorities == {"jk", "ucla"}
Dispositions == {"migrate", "retire", "split", "unchanged"}
Nobody == << >>          \* no actor, and the missing target of an injection
Name == Seq(STRING) \ {Nobody}
Injected == "inject"     \* request_id "inject-<nanoseconds>"

\* A row of a manifest; the fields that are for readers are left out.
ManifestRow == [authority : Authorities, source : Seq(STRING), target : Seq(STRING),
                disposition : Dispositions, controlPlane : BOOLEAN]

ASSUME NamespacesAssumption ==
  /\ Names \cup Humans \subseteq Name
  /\ ControlPlane \subseteq Names /\ \A n \in ControlPlane : Len(n) = 1
  /\ SharedGrants \subseteq Names
  /\ Manifests \subseteq SUBSET ManifestRow
  /\ Creations \subseteq SUBSET Names /\ \A names \in Creations : IsFiniteSet(names)
  /\ Injected \notin RequestIDs
  /\ MaxMessages \in Nat

VARIABLES
  server,        \* "stopped", or the namespace mode it runs in
  legacyScope,   \* BUS_LEGACY_SCOPE
  authority,     \* whose database this is
  manifest,      \* the manifest of the move
  db,            \* the tables, as far as they hold names
  undo           \* database and manifest of the last run, until the next change

config == <<legacyScope, authority, manifest>>
namespacesVars == <<server, config, db, undo>>

Empty == [agents |-> {}, messages |-> << >>, conversations |-> << >>,
          deliveries |-> << >>, cursors |-> << >>, idempotency |-> << >>,
          nextMessageID |-> 0]
NoRun == [before |-> Empty, manifest |-> {}]

Put(f, k, v) == [j \in DOMAIN f \cup {k} |-> IF j = k THEN v ELSE f[j]]
Without(f, k) == [j \in DOMAIN f \ {k} |-> f[j]]

(***************************************************************************)
(* Scope policy                                                            *)
(***************************************************************************)
\* ScopeOfName: the explicit scope of a name, or "none".
ScopeOfName(name) ==
  IF Len(name) > 1 /\ name[1] \in Scopes THEN name[1] ELSE "none"

scopeOfName(mode, name) ==
  IF ScopeOfName(name) = "none" /\ mode = "compat" THEN legacyScope
  ELSE ScopeOfName(name)

isControlPlaneAgent(mode, name) == mode = "strict" /\ name \in ControlPlane

acceptsName(mode, name) ==
  isControlPlaneAgent(mode, name) \/ scopeOfName(mode, name) # "none"

agentAllowedScopes(mode, a) ==
  IF isControlPlaneAgent(mode, a) THEN Scopes
  ELSE {scopeOfName(mode, a)} \ {"none"}

agentCanAccessName(mode, grants, a, name) ==
  LET scope == scopeOfName(mode, name)
  IN  CASE a = Nobody -> TRUE
        [] isControlPlaneAgent(mode, a) -> acceptsName(mode, name)
        [] scope = "shared" -> a \in grants
        [] OTHER -> scope \in agentAllowedScopes(mode, a)

CanAccess(a, name) == agentCanAccessName(server, SharedGrants, a, name)
AllAccessible(a, names) == \A name \in names : CanAccess(a, name)

(***************************************************************************)
(* The manifest                                                            *)
(***************************************************************************)
Prefix(auth) == IF auth = "jk" THEN "personal" ELSE "ucla"
ForeignScope(auth) == IF auth = "jk" THEN "ucla" ELSE "personal"
hasExplicitScope(name) == ScopeOfName(name) # "none"

PrefixedBy(auth, long, short) ==
  ~hasExplicitScope(short) /\ long = <<Prefix(auth)>> \o short

ForwardRow(r) == PrefixedBy(r.authority, r.target, r.source)

\* Mutation: any name may be declared unchanged.
validateMappingAny(r) ==
  /\ r.controlPlane =>
       r.disposition = "unchanged" /\ r.source = r.target /\ Len(r.source) = 1
  /\ ForeignScope(r.authority) \in {ScopeOfName(r.source), ScopeOfName(r.target)} =>
       r.disposition = "unchanged" /\ r.source = r.target
  /\ IF r.disposition = "unchanged" THEN r.source = r.target
     ELSE ForwardRow(r) \/ PrefixedBy(r.authority, r.source, r.target)

validateMapping(r) ==
  /\ r.controlPlane =>
       r.disposition = "unchanged" /\ r.source = r.target /\ Len(r.source) = 1
  /\ ForeignScope(r.authority) \in {ScopeOfName(r.source), ScopeOfName(r.target)} =>
       r.disposition = "unchanged" /\ r.source = r.target
  /\ IF r.disposition = "unchanged"
     THEN r.source = r.target /\ (hasExplicitScope(r.source) \/ r.controlPlane)
     ELSE ForwardRow(r) \/ PrefixedBy(r.authority, r.source, r.target)

\* No field is empty.
parseManifestRow(r) == Nobody \notin {r.source, r.target} /\ validateMapping(r)

LegacyID(r) == IF hasExplicitScope(r.source) THEN r.target ELSE r.source

validateSplitPairs(m) ==
  \A r \in m : r.disposition = "split" =>
    \A auth \in Authorities : \E q \in m :
      q.disposition = "split" /\ q.authority = auth /\ LegacyID(q) = LegacyID(r)

\* Mutation: two sources may share a target.
ParseManifestSources(m) ==
  /\ m # {}
  /\ \A r \in m : parseManifestRow(r)
  /\ \A r, q \in m : r.authority = q.authority /\ r.source = q.source => r = q
  /\ validateSplitPairs(m)

ParseManifest(m) ==
  /\ m # {}
  /\ \A r \in m : parseManifestRow(r)
  /\ \A r, q \in m :
       r.authority = q.authority /\ (r.source = q.source \/ r.target = q.target)
         => r = q
  /\ validateSplitPairs(m)

InvertManifest(m) ==
  {[r EXCEPT !.source = r.target, !.target = r.source] : r \in m}

\* pinakes-manifest-allowlist: what may register after the move.
Allowlist(m) == {r.target : r \in {q \in m : q.disposition # "retire"}}

(***************************************************************************)
(* The tool                                                                *)
(***************************************************************************)
Identities(d) ==
  (d.agents \cup DOMAIN d.cursors
     \cup (UNION {d.conversations[c].names : c \in DOMAIN d.conversations})
     \cup (UNION {{d.messages[i].from, d.messages[i].to} : i \in DOMAIN d.messages})
     \cup {d.deliveries[i].target : i \in DOMAIN d.deliveries}
     \cup (UNION {{k[1], k[2]} : k \in DOMAIN d.idempotency}))
  \ {Nobody}

selectMappings(m) == {r \in m : r.authority = authority}

Active(m, d) ==
  {r \in selectMappings(m) : r.source # r.target /\ r.source \in Identities(d)}

\* What the active rows make of the names of a database.
Renaming(m, d) ==
  [n \in Identities(d) \cup {Nobody} |->
     IF \E r \in Active(m, d) : r.source = n
     THEN (CHOOSE r \in Active(m, d) : r.source = n).target
     ELSE n]

\* Mutation: a target may be in use already.
TargetsFreeAlways(m, d) == TRUE
TargetsFree(m, d) == \A r \in Active(m, d) : r.target \notin Identities(d)

\* Mutation: only names that change are looked at.
MixedAmongRenamed(to, names) ==
  {"personal", "ucla"} \subseteq {ScopeOfName(to[n]) : n \in {k \in names : to[k] # k}}
Mixed(to, names) == {"personal", "ucla"} \subseteq {ScopeOfName(to[n]) : n \in names}

preflight(m, d) ==
  /\ Identities(d) \subseteq UNION {{r.source, r.target} : r \in selectMappings(m)}
  /\ TargetsFree(m, d)
  /\ \A c \in DOMAIN d.conversations :
       /\ d.conversations[c].array
       /\ ~Mixed(Renaming(m, d), d.conversations[c].names)

\* Everything Run asks for before it writes; what it refuses it leaves alone.
Accepts(m, d) ==
  /\ ParseManifest(m)
  /\ selectMappings(m) # {}
  /\ \A r \in selectMappings(m) : r.controlPlane => r.source \in ControlPlane
  /\ preflight(m, d)

\* The table f with its keys renamed.
Keyed(f, to) ==
  [k \in {to[j] : j \in DOMAIN f} |-> f[CHOOSE j \in DOMAIN f : to[j] = k]]

\* Mutation: duplicate receipts keep the old target.
KeysKeepTarget(to, keys) == [k \in keys |-> <<to[k[1]], k[2], k[3]>>]
RenamedKeys(to, keys) == [k \in keys |-> <<to[k[1]], to[k[2]], k[3]>>]

(* The rows are rewritten one mapping after the other, in one transaction. *)
(* No target is a name of the database, so the order does not matter.      *)
applyPlan(to, d) ==
  [agents |-> {to[a] : a \in d.agents},
   messages |-> [i \in DOMAIN d.messages |->
                   [d.messages[i] EXCEPT !.from = to[@], !.to = to[@]]],
   conversations |-> [c \in DOMAIN d.conversations |->
                        [d.conversations[c] EXCEPT !.names = {to[n] : n \in @}]],
   deliveries |-> [i \in DOMAIN d.deliveries |->
                     [d.deliveries[i] EXCEPT !.target = to[@]]],
   cursors |-> Keyed(d.cursors, to),
   idempotency |-> Keyed(d.idempotency, RenamedKeys(to, DOMAIN d.idempotency)),
   nextMessageID |-> d.nextMessageID]

Run(m) ==
  /\ server = "stopped"
  /\ Accepts(m, db)
  /\ Active(m, db) # {}
  /\ db' = applyPlan(Renaming(m, db), db)
  /\ undo' = [before |-> db, manifest |-> m]
  /\ UNCHANGED <<server, config>>

(***************************************************************************)
(* The bus                                                                 *)
(***************************************************************************)
Start(mode) == server = "stopped" /\ server' = mode /\ UNCHANGED <<config, db, undo>>
Stop == server # "stopped" /\ server' = "stopped" /\ UNCHANGED <<config, db, undo>>

Write(d) ==
  /\ server # "stopped"
  /\ db' = d
  /\ undo' = NoRun
  /\ UNCHANGED <<server, config>>

RegisterAgent(a) ==
  /\ acceptsName(server, a)
  /\ Write([db EXCEPT !.agents = @ \cup {a}])

MaySend(from, to) ==
  /\ acceptsName(server, from) /\ acceptsName(server, to)
  /\ {from, to} \subseteq db.agents
  /\ CanAccess(from, from)
  /\ isControlPlaneAgent(server, to) \/ CanAccess(from, to)

Participants(cid) ==
  IF cid \in DOMAIN db.conversations THEN db.conversations[cid].names ELSE {}

MayUseConversation(from, to, cid) ==
  cid \in DOMAIN db.conversations => AllAccessible(from, Participants(cid) \cup {from, to})

\* persistAcceptance: the message and its delivery.
Accept(id, from, to, cid, request, conversation) ==
  LET next == IF to \in DOMAIN db.cursors THEN db.cursors[to] ELSE 0
      kept == [db EXCEPT !.nextMessageID = id,
                         !.messages = Put(@, id, [from |-> from, to |-> to,
                                                  conversation |-> cid,
                                                  request |-> request]),
                         !.conversations = Put(@, cid, conversation)]
  IN  IF to = Nobody THEN kept
      ELSE [kept EXCEPT !.deliveries = Put(@, id, [target |-> to, seq |-> next]),
                        !.cursors = Put(@, to, next + 1)]

NextID == db.nextMessageID + 1

SendMessage(from, to, requestID, cid) ==
  LET key == <<from, to, requestID>>
      accepted == Accept(NextID, from, to, cid, requestID,
                         [names |-> Participants(cid) \cup {from, to}, array |-> TRUE])
  IN  /\ NextID <= MaxMessages
      /\ MaySend(from, to)
      /\ key \notin DOMAIN db.idempotency
      /\ MayUseConversation(from, to, cid)
      /\ Write([accepted EXCEPT !.idempotency = Put(@, key, NextID)])

(* An injection adds no participants.  A conversation that it creates has  *)
(* a nil list of them, which is stored as "null" and not as an array.      *)
Inject(human, to, cid) ==
  /\ NextID <= MaxMessages
  /\ to # Nobody => acceptsName(server, to) /\ to \in db.agents
  /\ Write(Accept(NextID, human, to, cid, Injected,
                  [names |-> Participants(cid),
                   array |-> cid \in DOMAIN db.conversations]))

\* With the inject token there is no actor, and any names will do.
CreateConversation(actor, cid, names) ==
  /\ actor = Nobody \/ actor \in db.agents
  /\ \A n \in names : acceptsName(server, n)
  /\ AllAccessible(actor, Participants(cid) \cup names)
  /\ Write([db EXCEPT !.conversations =
              Put(@, cid, [names |-> Participants(cid) \cup names, array |->
                           cid \in DOMAIN @ => @[cid].array \/ names # {}])])

(* pruneDB: receipts, messages with their deliveries, and conversations    *)
(* that no message needs go on clocks of their own.  Agent rows stay.      *)
PruneReceipt(key) == Write([db EXCEPT !.idempotency = Without(@, key)])

PruneMessage(id) ==
  Write([db EXCEPT !.messages = Without(@, id), !.deliveries = Without(@, id)])

PruneConversation(cid) ==
  /\ \A i \in DOMAIN db.messages : db.messages[i].conversation # cid
  /\ Write([db EXCEPT !.conversations = Without(@, cid)])

NamespacesInit ==
  /\ server = "stopped"
  /\ legacyScope \in {"personal", "ucla"}
  /\ authority \in Authorities
  /\ manifest \in {m \in Manifests : ParseManifest(m)}
  /\ db = Empty
  /\ undo = NoRun

NamespacesNext ==
  \/ \E mode \in {"compat", "strict"} : Start(mode)
  \/ Stop
  \/ \E a \in Names : RegisterAgent(a)
  \/ \E from, to \in Names, r \in RequestIDs, cid \in ConversationIDs :
       SendMessage(from, to, r, cid)
  \/ \E h \in Humans, to \in Names \cup {Nobody}, cid \in ConversationIDs :
       Inject(h, to, cid)
  \/ \E actor \in Names \cup {Nobody}, cid \in ConversationIDs, names \in Creations :
       CreateConversation(actor, cid, names)
  \/ \E key \in DOMAIN db.idempotency : PruneReceipt(key)
  \/ \E id \in DOMAIN db.messages : PruneMessage(id)
  \/ \E cid \in DOMAIN db.conversations : PruneConversation(cid)
  \/ Run(manifest) \/ Run(InvertManifest(manifest))

NamespacesSpec == NamespacesInit /\ [][NamespacesNext]_namespacesVars

(***************************************************************************)
(* Properties                                                              *)
(***************************************************************************)

(* The tables agree on who a message is from and to, whatever was renamed  *)
(* in between: its delivery and its duplicate receipt, a sequence number   *)
(* its target's cursor has passed, and, for a message that an agent sent,  *)
(* the participants of its conversation.                                   *)
ReferencesAgree ==
  /\ \A i \in DOMAIN db.messages :
       LET m == db.messages[i]
       IN  /\ m.to # Nobody =>
                /\ db.deliveries[i].target = m.to
                /\ db.deliveries[i].seq < db.cursors[m.to]
           /\ m.request # Injected =>
                {m.from, m.to} \subseteq db.conversations[m.conversation].names
  /\ \A i, j \in DOMAIN db.deliveries :
       db.deliveries[i] = db.deliveries[j] => i = j
  /\ \A key \in DOMAIN db.idempotency :
       LET i == db.idempotency[key]
       IN  i \in DOMAIN db.messages =>
             key = <<db.messages[i].from, db.messages[i].to, db.messages[i].request>>

(* A run of the tool never makes one identity out of two.                  *)
NoIdentityMerged ==
  [][server = "stopped" =>
       Cardinality(Identities(db')) = Cardinality(Identities(db))]_namespacesVars

(* No message of an agent joins a personal name with a ucla name: the      *)
(* policy of the bus forbids it in both modes, and the tool refuses a      *)
(* database in which renaming would bring it about, although the scope of  *)
(* a name without prefix is a matter of configuration.                     *)
ScopesStayApart ==
  \A i \in DOMAIN db.messages :
    LET m == db.messages[i]
    IN  m.request # Injected =>
          ~({"personal", "ucla"} \subseteq {ScopeOfName(m.from), ScopeOfName(m.to)})

\* Rows that had been carried out before the run.
AlreadyApplied(m, d) ==
  {r \in selectMappings(m) : /\ r.source # r.target
                             /\ r.source \notin Identities(d)
                             /\ r.target \in Identities(d)}

\* A manifest that moves to prefixed names.
Forward(m) == m # {} /\ \A r \in m : r.source = r.target \/ ForwardRow(r)

(* The inverse of a forward manifest is an exact undo plan: it parses, is  *)
(* accepted and restores the database as it was, unless a row had been     *)
(* carried out before the run, which the inverse takes back as well.       *)
UndoRestores ==
  LET inverse == InvertManifest(undo.manifest)
  IN  Forward(undo.manifest) /\ AlreadyApplied(undo.manifest, undo.before) = {} =>
        /\ Accepts(inverse, db)
        /\ applyPlan(Renaming(inverse, db), db) = undo.before

(* After a forward run the bus can be started in strict mode: it accepts   *)
(* every name, the allowlist made from the manifest has every agent that   *)
(* is not retired, and ordinary names can reach each other exactly as they *)
(* could in compat mode, if that gave bare names the authority's scope.    *)
StrictReady ==
  LET to == Renaming(undo.manifest, undo.before)
      ordinary == Identities(undo.before) \ ControlPlane
      grants == SharedGrants \cap ordinary
  IN  Forward(undo.manifest) =>
        /\ \A n \in Identities(db) : acceptsName("strict", n)
        /\ \A a \in db.agents :
             \/ a \in Allowlist(undo.manifest)
             \/ \E r \in undo.manifest : r.target = a /\ r.disposition = "retire"
        /\ legacyScope = Prefix(authority) =>
             \A a, b \in ordinary :
               agentCanAccessName("compat", grants, a, b)
                 <=> agentCanAccessName("strict", {to[g] : g \in grants}, to[a], to[b])
=============================================================================
