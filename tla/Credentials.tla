---------------------------- MODULE Credentials ----------------------------
(***************************************************************************)
(* Registration over HTTP (handleRegisterAgent): the allowlist, the proof  *)
(* of the current secret, the runtime registry, the agent row and its      *)
(* secret column, and the secrets the server verifies signatures with.     *)
(* The handler takes a lock for each of these in turn, so every one is a   *)
(* step of its own and registrations interleave, fail and meet crashes     *)
(* between them.  The backend is SQLite.                                   *)
(*                                                                         *)
(* A registration is named by its number, which also stands for what it    *)
(* sets: mode, callback, expiry.                                           *)
(***************************************************************************)
EXTENDS Integers, FiniteSets

CONSTANTS
  Agents, Secrets,
  NoSecret,              \* the empty secret, and a missing signature
  RequiredSecret,        \* control-plane agent -> the secret whose hash is set
  Requests,              \* agent, secret and signing key that clients send
  Allowlists,            \* contents an operator gives the allowlist file
  MaxRegistrations, MaxCrashes, MaxEdits     \* bounds of the model

ASSUME CredentialsAssumption ==
  /\ NoSecret \notin Secrets
  /\ DOMAIN RequiredSecret \subseteq Agents
  /\ \A a \in DOMAIN RequiredSecret : RequiredSecret[a] \in Secrets
  /\ Requests \subseteq Agents \X Secrets \X (Secrets \cup {NoSecret})
  /\ Allowlists \subseteq SUBSET Agents
  /\ {MaxRegistrations, MaxCrashes, MaxEdits} \subseteq Nat

VARIABLES
  up, crashes,     \* up: NewServerFromEnv has read the tables and the allowlist
  regs,            \* registrations under way, by number
  count,           \* registrations so far
  rows,            \* the agents table: agent -> registration and secret
  registry,        \* runtime registry: agent -> registration, 0 if none
  secrets,         \* the server's agentSecrets
  owned,           \* agents with an answered registration
  last,            \* agent -> what its row must be; reg 0 if disputed
  file,            \* the allowlist file
  present,         \* whether it is there
  watching,        \* whether its directory is watched, and requests are served
  changed,         \* whether the watcher has an event to look at
  allowset,        \* the server's agentAllowset
  edits,
  missed           \* whether the last edit of the file came too early for the
                   \* watcher, and nothing came after it

process == <<up, crashes>>
allowlist == <<file, present, watching, changed, allowset, edits, missed>>
credentialsVars == <<process, regs, count, rows, registry, secrets, owned, last,
                     allowlist>>

Registration ==
  [agent : Agents, secret : Secrets, key : Secrets \cup {NoSecret},
   pc : {"arrived", "allowed", "proved", "stored", "saved", "kept"},
   alone : BOOLEAN]          \* no other registration of the agent meanwhile
AgentRow == [reg : 0..MaxRegistrations, secret : Secrets \cup {NoSecret}]
NoRow == [reg |-> 0, secret |-> NoSecret]

CredentialsTypeOK ==
  /\ up \in BOOLEAN
  /\ crashes \in 0..MaxCrashes
  /\ count \in 0..MaxRegistrations
  /\ DOMAIN regs \subseteq 1..count
  /\ regs \in [DOMAIN regs -> Registration]
  /\ rows \in [Agents -> AgentRow]
  /\ registry \in [Agents -> 0..MaxRegistrations]
  /\ secrets \in [Agents -> Secrets \cup {NoSecret}]
  /\ owned \subseteq Agents
  /\ last \in [Agents -> AgentRow]
  /\ file \in SUBSET Agents
  /\ present \in BOOLEAN
  /\ watching \in BOOLEAN
  /\ changed \in BOOLEAN
  /\ missed \in BOOLEAN
  /\ allowset \subseteq Agents
  /\ edits \in 0..MaxEdits

\* The first start, after NewServerFromEnv.
CredentialsInit ==
  /\ up = TRUE /\ crashes = 0
  /\ regs = << >>
  /\ count = 0
  /\ rows = [a \in Agents |-> NoRow]
  /\ registry = [a \in Agents |-> 0]
  /\ secrets = [a \in Agents |-> NoSecret]
  /\ owned = {}
  /\ last = [a \in Agents |-> NoRow]
  /\ file \in Allowlists
  /\ present = TRUE
  /\ watching = FALSE /\ changed = FALSE /\ missed = FALSE
  /\ allowset = file
  /\ edits = 0

(***************************************************************************)
(* handleRegisterAgent                                                     *)
(***************************************************************************)
\* A request with its secret, and the key its signature was made with.
Arrive(a, secret, key) ==
  LET n == count + 1
      others == {k \in DOMAIN regs : regs[k].agent = a}
      new == [agent |-> a, secret |-> secret, key |-> key, pc |-> "arrived",
              alone |-> others = {}]
  IN  /\ n <= MaxRegistrations
      /\ count' = n
      /\ regs' = [k \in DOMAIN regs \cup {n} |->
                    IF k = n THEN new
                    ELSE IF k \in others THEN [regs[k] EXCEPT !.alone = FALSE]
                    ELSE regs[k]]
      /\ UNCHANGED <<process, rows, registry, secrets, owned, last, allowlist>>

\* Registration n has reached a step, goes on to the next, or is over.
At(n, pc) == n \in DOMAIN regs /\ regs[n].pc = pc
Move(n, pc) == regs' = [regs EXCEPT ![n].pc = pc] /\ UNCHANGED count
End(n) == regs' = [k \in DOMAIN regs \ {n} |-> regs[k]] /\ UNCHANGED count

isAgentAllowed(a) == allowset = {} \/ a \in allowset

CheckAllowed(n) ==
  /\ At(n, "arrived")
  /\ IF isAgentAllowed(regs[n].agent) THEN Move(n, "allowed") ELSE End(n)
  /\ UNCHANGED <<process, rows, registry, secrets, owned, last, allowlist>>

\* A signature made with the given key is accepted.
verifySignature(a, key) == secrets[a] # NoSecret /\ key = secrets[a]

\* Mutation: any signature will do.
ProofAny(a, secret, key) ==
  secrets[a] = NoSecret \/ secret = secrets[a] \/ key # NoSecret

verifyReregistrationProof(a, secret, key) ==
  \/ secrets[a] = NoSecret
  \/ secret = secrets[a]
  \/ verifySignature(a, key)

CheckProof(n) ==
  LET r == regs[n]
  IN  /\ At(n, "allowed")
      /\ IF verifyReregistrationProof(r.agent, r.secret, r.key)
         THEN Move(n, "proved") ELSE End(n)
      /\ UNCHANGED <<process, rows, registry, secrets, owned, last, allowlist>>

ControlPlaneOK(r) ==
  r.agent \in DOMAIN RequiredSecret => r.secret = RequiredSecret[r.agent]

\* The runtime registry, under s.inner.mu.
StoreAgent(n) ==
  LET r == regs[n]
  IN  /\ At(n, "proved")
      /\ IF ControlPlaneOK(r)
         THEN /\ Move(n, "stored")
              /\ registry' = [registry EXCEPT ![r.agent] = n]
              /\ last' = [last EXCEPT ![r.agent] = NoRow]
         ELSE End(n) /\ UNCHANGED <<registry, last>>
      /\ UNCHANGED <<process, rows, secrets, owned, allowlist>>

\* Mutation: the row is replaced, and its secret column with it.
UpsertReplaced(row, n) == [reg |-> n, secret |-> NoSecret]
\* saveAgentTo: the upsert does not name the secret column.
Upsert(row, n) == [row EXCEPT !.reg = n]

SaveAgent(n, written) ==
  LET a == regs[n].agent
  IN  /\ At(n, "stored")
      /\ IF written
         THEN Move(n, "saved") /\ rows' = [rows EXCEPT ![a] = Upsert(@, n)]
         ELSE End(n) /\ UNCHANGED rows
      /\ UNCHANGED <<process, registry, secrets, owned, last, allowlist>>

\* Mutation: the secret is kept in memory only.
KeptInMemory(row, secret) == row
KeptSecret(row, secret) == [row EXCEPT !.secret = secret]

SetAgentSecret(n, written) ==
  LET a == regs[n].agent
  IN  /\ At(n, "saved")
      /\ IF written /\ rows[a].reg # 0
         THEN /\ Move(n, "kept")
              /\ rows' = [rows EXCEPT ![a] = KeptSecret(@, regs[n].secret)]
         ELSE End(n) /\ UNCHANGED rows
      /\ UNCHANGED <<process, registry, secrets, owned, last, allowlist>>

\* The server's own copy, and the answer.
Answer(n) ==
  LET a == regs[n].agent
  IN  /\ At(n, "kept")
      /\ End(n)
      /\ secrets' = [secrets EXCEPT ![a] = regs[n].secret]
      /\ owned' = owned \cup {a}
      /\ last' = [last EXCEPT ![a] =
           IF regs[n].alone THEN [reg |-> n, secret |-> regs[n].secret]
           ELSE NoRow]
      /\ UNCHANGED <<process, rows, registry, allowlist>>

(***************************************************************************)
(* The allowlist file and its watcher                                      *)
(***************************************************************************)
\* main watches the directory once the server is made, then serves requests.
WatchAllowlistFile ==
  /\ up /\ ~watching
  /\ watching' = TRUE
  /\ UNCHANGED <<file, present, changed, allowset, edits, missed, process, regs,
                 count, rows, registry, secrets, owned, last>>

Edit ==
  /\ edits < MaxEdits
  /\ edits' = edits + 1
  /\ UNCHANGED <<watching, allowset, process, regs, count, rows, registry, secrets, owned,
                 last>>

(* Written in place, the file may be seen empty or cut short in between.   *)
(* Only a watched directory has events: what is written after the server   *)
(* has read the file and before it watches goes unnoticed.                 *)
WriteFile(content) ==
  /\ Edit
  /\ file' = content /\ present' = TRUE
  /\ changed' = watching
  /\ missed' = (up /\ ~watching)

\* The watcher does not act on a removal.  The last edit is not a removal.
RemoveFile ==
  /\ Edit
  /\ present /\ edits + 1 < MaxEdits
  /\ present' = FALSE
  /\ UNCHANGED <<file, changed, missed>>

\* Times and permissions change; the watcher reloads what has not changed.
TouchFile ==
  /\ present /\ watching
  /\ changed' = TRUE
  /\ missed' = FALSE
  /\ UNCHANGED <<file, present, watching, allowset, edits, process, regs, count, rows,
                 registry, secrets, owned, last>>

\* Mutation: an empty file is taken for an unreadable one.
ReadableNonempty == present /\ file # {}
Readable == present

\* reloadAllowlistFile; a file that cannot be read leaves the set alone.
reloadAllowlist ==
  /\ changed
  /\ changed' = FALSE
  /\ allowset' = IF Readable THEN file ELSE allowset
  /\ UNCHANGED <<file, present, watching, edits, missed, process, regs, count,
                 rows, registry, secrets, owned, last>>

(***************************************************************************)
(* Crash and restart                                                       *)
(***************************************************************************)
Crash ==
  /\ crashes < MaxCrashes
  /\ crashes' = crashes + 1
  /\ up' = FALSE
  /\ regs' = << >>
  /\ registry' = [a \in Agents |-> 0]
  /\ secrets' = [a \in Agents |-> NoSecret]
  /\ watching' = FALSE /\ changed' = FALSE /\ missed' = FALSE
  /\ allowset' = {}
  /\ UNCHANGED <<count, rows, owned, last, file, present, edits>>

(* loadAll and NewServerFromEnv, which reads the allowlist file and the    *)
(* persisted secrets; without a readable file the server does not start.   *)
Restart ==
  /\ ~up
  /\ present
  /\ up' = TRUE
  /\ registry' = [a \in Agents |-> rows[a].reg]
  /\ secrets' = [a \in Agents |-> rows[a].secret]
  /\ allowset' = file
  /\ UNCHANGED <<crashes, regs, count, rows, owned, last, file, present, watching,
                 changed, edits, missed>>

Register ==
  \E n \in DOMAIN regs :
    \/ CheckAllowed(n) \/ CheckProof(n) \/ StoreAgent(n) \/ Answer(n)
    \/ \E written \in BOOLEAN : SaveAgent(n, written) \/ SetAgentSecret(n, written)

CredentialsNext ==
  \/ /\ up /\ watching
     /\ \/ \E r \in Requests : Arrive(r[1], r[2], r[3])
        \/ Register
        \/ reloadAllowlist
  \/ WatchAllowlistFile
  \/ up /\ Crash
  \/ \E content \in Allowlists : WriteFile(content)
  \/ RemoveFile
  \/ TouchFile
  \/ Restart

CredentialsSpec == CredentialsInit /\ [][CredentialsNext]_credentialsVars

(***************************************************************************)
(* Properties                                                              *)
(***************************************************************************)

(* A registration that was answered, that overlapped no other of its agent *)
(* and was the last to be accepted, is in force with its secret: in the    *)
(* row, and in the registry and the server's table whenever the process    *)
(* runs, however often it has crashed and restarted since.                 *)
AnsweredIsInForce ==
  \A a \in Agents :
    last[a] # NoRow =>
      /\ rows[a] = last[a]
      /\ up => /\ registry[a] = last[a].reg
               /\ verifySignature(a, last[a].secret)

(* An agent that has been answered once never counts as one without a      *)
(* secret again: neither a failed write, a crash between the row and its   *)
(* secret, nor a later registration leaves its row or the server's table   *)
(* empty.                                                                  *)
OwnedKeepSecret ==
  \A a \in owned :
    /\ rows[a].secret # NoSecret
    /\ up => secrets[a] # NoSecret

(* The server's secret of an agent changes to another one only by a        *)
(* registration that was checked against the secret it replaces, unless    *)
(* registrations of the agent overlapped.                                  *)
RotationIsProved ==
  [][up /\ up' =>
       \A a \in Agents :
         secrets[a] # NoSecret /\ secrets'[a] # secrets[a] =>
           \E n \in DOMAIN regs :
             /\ regs[n].agent = a /\ regs[n].pc = "kept"
             /\ regs[n].secret = secrets'[a]
             /\ ~regs[n].alone \/ regs[n].key = secrets[a]]_credentialsVars

\* main goes on, the watcher's goroutine runs, and the container restarts them.
FairCredentialsSpec ==
  /\ CredentialsSpec
  /\ WF_credentialsVars(WatchAllowlistFile)
  /\ WF_credentialsVars(up /\ watching /\ reloadAllowlist)
  /\ WF_credentialsVars(Restart)

(* The allowlist in force follows the file: once the operator leaves a     *)
(* readable file alone, the server has its content, whatever it read while *)
(* the file was being rewritten.  Only an edit that falls between the load *)
(* of NewServerFromEnv and the watch that main adds afterwards may stay    *)
(* unseen, until the file is touched or the process restarts.              *)
AllowlistFollows ==
  [](edits = MaxEdits => <>(missed \/ (up /\ allowset = file)))
=============================================================================
