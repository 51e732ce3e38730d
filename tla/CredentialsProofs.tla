------------------------- MODULE CredentialsProofs -------------------------
(***************************************************************************)
(* Theorems about Credentials: for any agents, secrets, requests and any   *)
(* number of registrations, crashes and edits.  The inductive invariant    *)
(* says how far a registration has come in the tables, which is certain    *)
(* only while it is alone.                                                 *)
(***************************************************************************)
EXTENDS Credentials, TLAPS

\* A registration that is alone is the only one of its agent.
AloneIsOnly ==
  \A n, k \in DOMAIN regs :
    regs[n].alone /\ regs[k].agent = regs[n].agent => k = n

\* Once the registry has a new registration, nothing is settled.
StoredIsDisputed ==
  \A n \in DOMAIN regs :
    regs[n].pc \in {"stored", "saved", "kept"} => last[regs[n].agent] = NoRow

\* What a registration that is alone has done so far.
AloneInStep ==
  \A n \in DOMAIN regs :
    regs[n].alone =>
      /\ regs[n].pc \in {"stored", "saved", "kept"} => registry[regs[n].agent] = n
      /\ regs[n].pc \in {"saved", "kept"} => rows[regs[n].agent].reg = n
      /\ regs[n].pc = "kept" => rows[regs[n].agent].secret = regs[n].secret
      /\ regs[n].pc \in {"proved", "stored", "saved", "kept"} =>
           verifyReregistrationProof(regs[n].agent, regs[n].secret, regs[n].key)

KeptHasSecret ==
  \A n \in DOMAIN regs :
    regs[n].pc = "kept" => rows[regs[n].agent].secret # NoSecret

NothingWhileDown == ~up => DOMAIN regs = {}

LastHasSecret == \A a \in Agents : last[a] # NoRow => last[a].secret # NoSecret

RegistrationInv ==
  /\ CredentialsTypeOK
  /\ AloneIsOnly
  /\ StoredIsDisputed
  /\ AloneInStep
  /\ KeptHasSecret
  /\ NothingWhileDown
  /\ LastHasSecret
  /\ OwnedKeepSecret
  /\ AnsweredIsInForce

(***************************************************************************)
(* Type correctness                                                        *)
(***************************************************************************)
\* The three ways in which a step changes the registrations under way.
LEMMA MoveType ==
  ASSUME CredentialsTypeOK, NEW n \in DOMAIN regs,
         NEW pc \in {"allowed", "proved", "stored", "saved", "kept"}, Move(n, pc)
  PROVE  /\ count' \in 0..MaxRegistrations
         /\ DOMAIN regs' \subseteq 1..count'
         /\ regs' \in [DOMAIN regs' -> Registration]
  BY DEF CredentialsTypeOK, Move, Registration

LEMMA EndType ==
  ASSUME CredentialsTypeOK, NEW n \in DOMAIN regs, End(n)
  PROVE  /\ count' \in 0..MaxRegistrations
         /\ DOMAIN regs' \subseteq 1..count'
         /\ regs' \in [DOMAIN regs' -> Registration]
  BY DEF CredentialsTypeOK, End

LEMMA ArriveType ==
  ASSUME CredentialsTypeOK, NEW r \in Requests, Arrive(r[1], r[2], r[3])
  PROVE  CredentialsTypeOK'
  <1> DEFINE others == {k \in DOMAIN regs : regs[k].agent = r[1]}
             n == count + 1
             new == [agent |-> r[1], secret |-> r[2], key |-> r[3],
                     pc |-> "arrived", alone |-> others = {}]
  <1>1. new \in Registration
    BY CredentialsAssumption DEF Registration
  <1>2. /\ n \in 1..MaxRegistrations
        /\ count' = n
        /\ regs' = [k \in DOMAIN regs \cup {n} |->
                      IF k = n THEN new
                      ELSE IF k \in others THEN [regs[k] EXCEPT !.alone = FALSE]
                      ELSE regs[k]]
    BY CredentialsAssumption DEF Arrive, CredentialsTypeOK
  <1>3. \A k \in DOMAIN regs : [regs[k] EXCEPT !.alone = FALSE] \in Registration
    BY DEF CredentialsTypeOK, Registration
  <1>4. DOMAIN regs' \subseteq 1..count'
    BY <1>2 DEF CredentialsTypeOK
  <1>5. regs' \in [DOMAIN regs' -> Registration]
    BY <1>1, <1>2, <1>3 DEF CredentialsTypeOK
  <1> QED
    BY <1>2, <1>4, <1>5, CredentialsAssumption
    DEF Arrive, CredentialsTypeOK, process, allowlist

\* No registration under way.
LEMMA EmptyType ==
  << >> \in [DOMAIN << >> -> Registration] /\ DOMAIN << >> = {}
  OBVIOUS

LEMMA NoRowType == NoRow \in AgentRow
  BY CredentialsAssumption DEF NoRow, AgentRow

LEMMA InitType == ASSUME CredentialsInit PROVE CredentialsTypeOK
  <1>1. /\ up \in BOOLEAN /\ present \in BOOLEAN /\ watching \in BOOLEAN
        /\ changed \in BOOLEAN /\ missed \in BOOLEAN
    BY DEF CredentialsInit
  <1>2. /\ count \in 0..MaxRegistrations
        /\ DOMAIN regs \subseteq 1..count
        /\ regs \in [DOMAIN regs -> Registration]
    BY EmptyType, CredentialsAssumption DEF CredentialsInit
  <1>3. rows \in [Agents -> AgentRow] /\ last \in [Agents -> AgentRow]
    BY NoRowType DEF CredentialsInit
  <1>4. /\ crashes \in 0..MaxCrashes /\ edits \in 0..MaxEdits
        /\ registry \in [Agents -> 0..MaxRegistrations]
        /\ secrets \in [Agents -> Secrets \cup {NoSecret}]
    BY CredentialsAssumption DEF CredentialsInit
  <1>5. owned \subseteq Agents /\ file \in SUBSET Agents /\ allowset \subseteq Agents
    BY CredentialsAssumption DEF CredentialsInit
  <1> QED
    BY <1>1, <1>2, <1>3, <1>4, <1>5 DEF CredentialsTypeOK

LEMMA StepType ==
  ASSUME CredentialsTypeOK, NEW n \in DOMAIN regs,
         NEW written \in BOOLEAN,
         \/ CheckAllowed(n) \/ CheckProof(n) \/ StoreAgent(n) \/ Answer(n)
         \/ SaveAgent(n, written) \/ SetAgentSecret(n, written)
  PROVE  CredentialsTypeOK'
  <1>1. /\ regs[n] \in Registration
        /\ regs[n].agent \in Agents /\ regs[n].secret \in Secrets
        /\ n \in 0..MaxRegistrations
    BY CredentialsAssumption DEF CredentialsTypeOK, Registration
  <1>2. /\ count' \in 0..MaxRegistrations
        /\ DOMAIN regs' \subseteq 1..count'
        /\ regs' \in [DOMAIN regs' -> Registration]
    BY MoveType, EndType
    DEF CheckAllowed, CheckProof, StoreAgent, Answer, SaveAgent, SetAgentSecret
  <1>4. CASE CheckAllowed(n) \/ CheckProof(n)
    BY <1>2, <1>4
    DEF CheckAllowed, CheckProof, CredentialsTypeOK, process, allowlist
  <1>5. CASE StoreAgent(n)
    <2>1. /\ registry' \in [Agents -> 0..MaxRegistrations]
          /\ last' \in [Agents -> AgentRow]
      <3>1. CASE ControlPlaneOK(regs[n])
        BY <1>1, <1>5, <3>1, NoRowType DEF StoreAgent, CredentialsTypeOK
      <3>2. CASE ~ControlPlaneOK(regs[n])
        BY <1>5, <3>2 DEF StoreAgent, CredentialsTypeOK
      <3> QED
        BY <3>1, <3>2
    <2> QED
      BY <1>2, <1>5, <2>1 DEF StoreAgent, CredentialsTypeOK, process, allowlist
  <1>6. CASE Answer(n)
    BY <1>1, <1>2, <1>6, NoRowType
    DEF Answer, AgentRow, CredentialsTypeOK, process, allowlist
  <1>7. CASE SaveAgent(n, written) \/ SetAgentSecret(n, written)
    <2>1. rows[regs[n].agent] \in AgentRow
      BY <1>1 DEF CredentialsTypeOK
    <2>2. /\ Upsert(rows[regs[n].agent], n) \in AgentRow
          /\ KeptSecret(rows[regs[n].agent], regs[n].secret) \in AgentRow
      BY <1>1, <2>1 DEF Upsert, KeptSecret, AgentRow
    <2>3. rows' \in [Agents -> AgentRow]
      BY <1>7, <2>2 DEF SaveAgent, SetAgentSecret, CredentialsTypeOK
    <2> QED
      BY <1>2, <1>7, <2>3
      DEF SaveAgent, SetAgentSecret, CredentialsTypeOK, process, allowlist
  <1> QED
    BY <1>4, <1>5, <1>6, <1>7

LEMMA FileType ==
  ASSUME CredentialsTypeOK,
         \/ \E content \in Allowlists : WriteFile(content)
         \/ RemoveFile \/ TouchFile \/ WatchAllowlistFile \/ reloadAllowlist
  PROVE  CredentialsTypeOK'
  <1>1. file' \in SUBSET Agents /\ allowset' \subseteq Agents
    BY CredentialsAssumption
    DEF WriteFile, RemoveFile, TouchFile, WatchAllowlistFile, reloadAllowlist,
        Edit, CredentialsTypeOK
  <1>2. /\ present' \in BOOLEAN /\ watching' \in BOOLEAN
        /\ changed' \in BOOLEAN /\ missed' \in BOOLEAN
    BY DEF WriteFile, RemoveFile, TouchFile, WatchAllowlistFile, reloadAllowlist,
           Edit, CredentialsTypeOK
  <1>3. edits' \in 0..MaxEdits
    BY CredentialsAssumption
    DEF WriteFile, RemoveFile, TouchFile, WatchAllowlistFile, reloadAllowlist,
        Edit, CredentialsTypeOK
  <1>4. UNCHANGED <<process, regs, count, rows, registry, secrets, owned, last>>
    BY DEF WriteFile, RemoveFile, TouchFile, WatchAllowlistFile, reloadAllowlist,
           Edit
  <1> QED
    BY <1>1, <1>2, <1>3, <1>4 DEF CredentialsTypeOK, process

LEMMA ProcessType ==
  ASSUME CredentialsTypeOK, Crash \/ Restart
  PROVE  CredentialsTypeOK'
  <1>1. CASE Crash
    <2>1. /\ up' \in BOOLEAN /\ present' \in BOOLEAN /\ watching' \in BOOLEAN
          /\ changed' \in BOOLEAN /\ missed' \in BOOLEAN
      BY <1>1 DEF Crash, CredentialsTypeOK
    <2>2. regs' \in [DOMAIN regs' -> Registration] /\ DOMAIN regs' \subseteq 1..count'
      BY <1>1, EmptyType DEF Crash
    <2>3. /\ crashes' \in 0..MaxCrashes
          /\ registry' \in [Agents -> 0..MaxRegistrations]
          /\ secrets' \in [Agents -> Secrets \cup {NoSecret}]
          /\ allowset' \subseteq Agents
      BY <1>1, CredentialsAssumption DEF Crash, CredentialsTypeOK
    <2> QED
      BY <1>1, <2>1, <2>2, <2>3 DEF Crash, CredentialsTypeOK
  <1>2. CASE Restart
    BY <1>2, CredentialsAssumption DEF Restart, CredentialsTypeOK, AgentRow
  <1> QED
    BY <1>1, <1>2

(* Type correctness of the registration handshake and the allowlist,       *)
(* whatever fails or crashes (handleRegisterAgent, WatchAllowlistFile).    *)
THEOREM CredentialsTypeCorrect == CredentialsSpec => []CredentialsTypeOK
  <1>1. ASSUME CredentialsTypeOK, [CredentialsNext]_credentialsVars
        PROVE  CredentialsTypeOK'
    <2>1. CASE UNCHANGED credentialsVars
      BY <1>1, <2>1 DEF credentialsVars, process, allowlist, CredentialsTypeOK
    <2>2. CASE CredentialsNext
      BY <1>1, <2>2, ArriveType, StepType, FileType, ProcessType
      DEF CredentialsNext, Register
    <2> QED
      BY <1>1, <2>1, <2>2
  <1> QED
    BY <1>1, InitType, PTL DEF CredentialsSpec

(***************************************************************************)
(* The inductive invariant                                                 *)
(***************************************************************************)
LEMMA InitInv == ASSUME CredentialsInit PROVE RegistrationInv
  <1>1. DOMAIN regs = {}
    BY EmptyType DEF CredentialsInit
  <1> QED
    BY <1>1, InitType
    DEF CredentialsInit, RegistrationInv, AloneIsOnly, StoredIsDisputed,
        AloneInStep, KeptHasSecret, NothingWhileDown, LastHasSecret,
        OwnedKeepSecret, AnsweredIsInForce

LEMMA ArriveInv ==
  ASSUME RegistrationInv, up, NEW r \in Requests, Arrive(r[1], r[2], r[3])
  PROVE  RegistrationInv'
  <1> DEFINE n == count + 1
  <1>1. CredentialsTypeOK'
    BY ArriveType DEF RegistrationInv
  <1>2. /\ n \notin DOMAIN regs
        /\ DOMAIN regs' = DOMAIN regs \cup {n}
    BY DEF Arrive, RegistrationInv, CredentialsTypeOK
  <1>3. /\ regs'[n].agent = r[1] /\ regs'[n].pc = "arrived"
        /\ regs'[n].alone => \A k \in DOMAIN regs : regs[k].agent # r[1]
    BY <1>2 DEF Arrive
  <1>4. \A k \in DOMAIN regs :
          /\ regs'[k].agent = regs[k].agent /\ regs'[k].pc = regs[k].pc
          /\ regs'[k].secret = regs[k].secret /\ regs'[k].key = regs[k].key
          /\ regs'[k].alone => regs[k].alone /\ regs[k].agent # r[1]
    BY <1>2 DEF Arrive, RegistrationInv, CredentialsTypeOK, Registration
  <1>5. UNCHANGED <<up, rows, registry, secrets, owned, last>>
    BY DEF Arrive, process
  <1>6. AloneIsOnly' /\ StoredIsDisputed' /\ KeptHasSecret'
    BY <1>2, <1>3, <1>4, <1>5
    DEF RegistrationInv, AloneIsOnly, StoredIsDisputed, KeptHasSecret
  <1>7. AloneInStep'
    BY <1>2, <1>3, <1>4, <1>5
    DEF RegistrationInv, AloneInStep, verifyReregistrationProof, verifySignature
  <1>8. NothingWhileDown'
    BY <1>5 DEF NothingWhileDown
  <1>9. LastHasSecret' /\ OwnedKeepSecret' /\ AnsweredIsInForce'
    BY <1>5
    DEF RegistrationInv, LastHasSecret, OwnedKeepSecret, AnsweredIsInForce,
        verifySignature
  <1> QED
    BY <1>1, <1>6, <1>7, <1>8, <1>9 DEF RegistrationInv

LEMMA MoveFacts ==
  ASSUME CredentialsTypeOK, NEW n \in DOMAIN regs, NEW pc, Move(n, pc)
  PROVE  /\ DOMAIN regs' = DOMAIN regs
         /\ \A k \in DOMAIN regs \ {n} : regs'[k] = regs[k]
         /\ regs'[n].pc = pc /\ regs'[n].agent = regs[n].agent
         /\ regs'[n].secret = regs[n].secret /\ regs'[n].key = regs[n].key
         /\ regs'[n].alone = regs[n].alone
  BY DEF CredentialsTypeOK, Move, Registration

LEMMA EndFacts ==
  ASSUME NEW n \in DOMAIN regs, End(n)
  PROVE  /\ DOMAIN regs' = DOMAIN regs \ {n}
         /\ \A k \in DOMAIN regs \ {n} : regs'[k] = regs[k]
  BY DEF End

\* A registration that is refused, or whose write fails, changes nothing.
LEMMA EndInv ==
  ASSUME RegistrationInv, CredentialsTypeOK', NEW n \in DOMAIN regs, End(n),
         UNCHANGED <<up, rows, registry, secrets, owned, last>>
  PROVE  RegistrationInv'
  <1>0. /\ DOMAIN regs' \subseteq DOMAIN regs
        /\ \A k \in DOMAIN regs' : regs'[k] = regs[k]
    BY EndFacts
  <1>1. AloneIsOnly' /\ StoredIsDisputed' /\ KeptHasSecret'
    BY <1>0
    DEF RegistrationInv, AloneIsOnly, StoredIsDisputed, KeptHasSecret
  <1>2. AloneInStep'
    BY <1>0
    DEF RegistrationInv, AloneInStep, verifyReregistrationProof, verifySignature
  <1>3. NothingWhileDown'
    BY <1>0 DEF RegistrationInv, NothingWhileDown
  <1>4. LastHasSecret' /\ OwnedKeepSecret' /\ AnsweredIsInForce'
    BY DEF RegistrationInv, LastHasSecret, OwnedKeepSecret, AnsweredIsInForce,
           verifySignature
  <1> QED
    BY <1>1, <1>2, <1>3, <1>4 DEF RegistrationInv

LEMMA CheckInv ==
  ASSUME RegistrationInv, up, NEW n \in DOMAIN regs, CheckAllowed(n) \/ CheckProof(n)
  PROVE  RegistrationInv'
  <1>1. CredentialsTypeOK'
    BY StepType DEF RegistrationInv
  <1>2. UNCHANGED <<up, rows, registry, secrets, owned, last>>
    BY DEF CheckAllowed, CheckProof, process
  <1>3. CASE End(n)
    BY <1>1, <1>2, <1>3, EndInv
  <1>4. ASSUME NEW pc \in {"allowed", "proved"}, Move(n, pc),
               pc = "proved" => verifyReregistrationProof(regs[n].agent,
                                  regs[n].secret, regs[n].key)
        PROVE  RegistrationInv'
    <2>1. /\ DOMAIN regs' = DOMAIN regs
          /\ \A k \in DOMAIN regs \ {n} : regs'[k] = regs[k]
          /\ regs'[n].pc = pc /\ regs'[n].agent = regs[n].agent
          /\ regs'[n].secret = regs[n].secret /\ regs'[n].key = regs[n].key
          /\ regs'[n].alone = regs[n].alone
      BY <1>4, MoveFacts DEF RegistrationInv
    <2>2. AloneIsOnly'
      BY <2>1 DEF RegistrationInv, AloneIsOnly
    <2>3. StoredIsDisputed' /\ KeptHasSecret'
      BY <1>2, <2>1 DEF RegistrationInv, StoredIsDisputed, KeptHasSecret
    <2>4. AloneInStep'
      BY <1>2, <1>4, <2>1
      DEF RegistrationInv, AloneInStep, verifyReregistrationProof, verifySignature
    <2>5. NothingWhileDown'
      BY <1>2 DEF NothingWhileDown
    <2>6. LastHasSecret' /\ OwnedKeepSecret' /\ AnsweredIsInForce'
      BY <1>2 DEF RegistrationInv, LastHasSecret, OwnedKeepSecret,
                  AnsweredIsInForce, verifySignature
    <2> QED
      BY <1>1, <2>2, <2>3, <2>4, <2>5, <2>6 DEF RegistrationInv
  <1> QED
    BY <1>3, <1>4 DEF CheckAllowed, CheckProof

LEMMA StoreInv ==
  ASSUME RegistrationInv, up, NEW n \in DOMAIN regs, StoreAgent(n)
  PROVE  RegistrationInv'
  <1> DEFINE a == regs[n].agent
  <1>1. CredentialsTypeOK'
    BY StepType DEF RegistrationInv
  <1>2. UNCHANGED <<up, rows, secrets, owned>>
    BY DEF StoreAgent, process
  <1>3. CASE ~ControlPlaneOK(regs[n])
    BY <1>1, <1>2, <1>3, EndInv DEF StoreAgent
  <1>4. CASE ControlPlaneOK(regs[n])
    <2>1. /\ DOMAIN regs' = DOMAIN regs
          /\ \A k \in DOMAIN regs \ {n} : regs'[k] = regs[k]
          /\ regs'[n].pc = "stored" /\ regs'[n].agent = a
          /\ regs'[n].secret = regs[n].secret /\ regs'[n].key = regs[n].key
          /\ regs'[n].alone = regs[n].alone
      BY <1>4, MoveFacts DEF RegistrationInv, StoreAgent
    <2>2. a \in Agents /\ regs[n].pc = "proved"
      BY DEF RegistrationInv, CredentialsTypeOK, Registration, StoreAgent, At
    <2>3. /\ registry'[a] = n /\ last'[a] = NoRow
          /\ \A b \in Agents \ {a} : registry'[b] = registry[b] /\ last'[b] = last[b]
      BY <1>4, <2>2 DEF StoreAgent, RegistrationInv, CredentialsTypeOK
    <2>4. \A k \in DOMAIN regs : regs[k].agent \in Agents
      BY DEF RegistrationInv, CredentialsTypeOK, Registration
    <2>5. AloneIsOnly'
      BY <2>1 DEF RegistrationInv, AloneIsOnly
    <2>6. StoredIsDisputed' /\ KeptHasSecret'
      BY <1>2, <2>1, <2>3, <2>4 DEF RegistrationInv, StoredIsDisputed, KeptHasSecret
    <2>7. AloneInStep'
      BY <1>2, <2>1, <2>2, <2>3, <2>4
      DEF RegistrationInv, AloneInStep, AloneIsOnly, verifyReregistrationProof,
          verifySignature
    <2>8. NothingWhileDown'
      BY <1>2 DEF NothingWhileDown
    <2>9. LastHasSecret' /\ OwnedKeepSecret'
      BY <1>2, <2>3 DEF RegistrationInv, LastHasSecret, OwnedKeepSecret
    <2>10. AnsweredIsInForce'
      BY <1>2, <2>3 DEF RegistrationInv, AnsweredIsInForce, verifySignature
    <2> QED
      BY <1>1, <2>5, <2>6, <2>7, <2>8, <2>9, <2>10 DEF RegistrationInv
  <1> QED
    BY <1>3, <1>4

\* The two writes to the agent's row.
LEMMA WriteInv ==
  ASSUME RegistrationInv, up, NEW n \in DOMAIN regs, NEW written \in BOOLEAN,
         SaveAgent(n, written) \/ SetAgentSecret(n, written)
  PROVE  RegistrationInv'
  <1> DEFINE a == regs[n].agent
  <1>1. CredentialsTypeOK'
    BY StepType DEF RegistrationInv
  <1>2. UNCHANGED <<up, registry, secrets, owned, last>>
    BY DEF SaveAgent, SetAgentSecret, process
  <1>3. CASE End(n) /\ UNCHANGED rows
    BY <1>1, <1>2, <1>3, EndInv
  <1>4. ASSUME NEW pc \in {"saved", "kept"}, Move(n, pc),
               \/ /\ pc = "saved" /\ regs[n].pc = "stored"
                  /\ rows' = [rows EXCEPT ![a] = Upsert(@, n)]
               \/ /\ pc = "kept" /\ regs[n].pc = "saved"
                  /\ rows' = [rows EXCEPT ![a] = KeptSecret(@, regs[n].secret)]
        PROVE  RegistrationInv'
    <2>1. /\ DOMAIN regs' = DOMAIN regs
          /\ \A k \in DOMAIN regs \ {n} : regs'[k] = regs[k]
          /\ regs'[n].pc = pc /\ regs'[n].agent = a
          /\ regs'[n].secret = regs[n].secret /\ regs'[n].key = regs[n].key
          /\ regs'[n].alone = regs[n].alone
      BY <1>4, MoveFacts DEF RegistrationInv
    <2>2. a \in Agents /\ regs[n].secret \in Secrets /\ rows[a] \in AgentRow
      BY DEF RegistrationInv, CredentialsTypeOK, Registration
    <2>3. \A b \in Agents \ {a} : rows'[b] = rows[b]
      BY <1>4, <2>2 DEF RegistrationInv, CredentialsTypeOK
    <2>4. /\ pc = "saved" => rows'[a].reg = n /\ rows'[a].secret = rows[a].secret
          /\ pc = "kept" => /\ rows'[a].reg = rows[a].reg
                            /\ rows'[a].secret = regs[n].secret
      BY <1>4, <2>2
      DEF Upsert, KeptSecret, AgentRow, RegistrationInv, CredentialsTypeOK
    <2>5. \A k \in DOMAIN regs : regs[k].agent \in Agents
      BY DEF RegistrationInv, CredentialsTypeOK, Registration
    <2>6. rows[a].secret # NoSecret => rows'[a].secret # NoSecret
      BY <2>2, <2>4, CredentialsAssumption
    <2>7. AloneIsOnly'
      BY <2>1 DEF RegistrationInv, AloneIsOnly
    <2>8. StoredIsDisputed'
      BY <1>2, <1>4, <2>1 DEF RegistrationInv, StoredIsDisputed
    <2>9. KeptHasSecret'
      BY <2>1, <2>2, <2>3, <2>4, <2>5, <2>6, CredentialsAssumption
      DEF RegistrationInv, KeptHasSecret
    <2>10. AloneInStep'
      BY <1>2, <1>4, <2>1, <2>2, <2>3, <2>4, <2>5
      DEF RegistrationInv, AloneInStep, AloneIsOnly, verifyReregistrationProof,
          verifySignature
    <2>11. NothingWhileDown'
      BY <1>2 DEF NothingWhileDown
    <2>12. LastHasSecret' /\ OwnedKeepSecret'
      BY <1>2, <2>3, <2>6
      DEF RegistrationInv, LastHasSecret, OwnedKeepSecret, CredentialsTypeOK
    <2>13. last[a] = NoRow
      BY <1>4 DEF RegistrationInv, StoredIsDisputed
    <2>14. AnsweredIsInForce'
      BY <1>2, <2>3, <2>13 DEF RegistrationInv, AnsweredIsInForce, verifySignature
    <2> QED
      BY <1>1, <2>7, <2>8, <2>9, <2>10, <2>11, <2>12, <2>14 DEF RegistrationInv
  <1> QED
    BY <1>3, <1>4 DEF SaveAgent, SetAgentSecret, At

LEMMA AnswerInv ==
  ASSUME RegistrationInv, up, NEW n \in DOMAIN regs, Answer(n)
  PROVE  RegistrationInv'
  <1> DEFINE a == regs[n].agent
  <1>1. CredentialsTypeOK'
    BY StepType DEF RegistrationInv
  <1>2. UNCHANGED <<up, rows, registry>> /\ owned' = owned \cup {a}
    BY DEF Answer, process
  <1>3. /\ DOMAIN regs' = DOMAIN regs \ {n}
        /\ \A k \in DOMAIN regs' : regs'[k] = regs[k]
    BY EndFacts DEF Answer
  <1>4. /\ a \in Agents /\ regs[n].secret \in Secrets /\ regs[n].pc = "kept"
        /\ rows[a] \in AgentRow /\ rows[a].secret # NoSecret
        /\ \A k \in DOMAIN regs : regs[k].agent \in Agents
    BY DEF RegistrationInv, CredentialsTypeOK, Registration, KeptHasSecret, Answer, At
  <1>5. /\ secrets'[a] = regs[n].secret
        /\ last'[a] = IF regs[n].alone THEN [reg |-> n, secret |-> regs[n].secret]
                      ELSE NoRow
        /\ \A b \in Agents \ {a} : secrets'[b] = secrets[b] /\ last'[b] = last[b]
    BY <1>4 DEF Answer, RegistrationInv, CredentialsTypeOK
  <1>6. regs[n].alone => rows[a] = [reg |-> n, secret |-> regs[n].secret]
                         /\ registry[a] = n
    BY <1>4 DEF RegistrationInv, AloneInStep, AgentRow
  <1>7. AloneIsOnly' /\ KeptHasSecret'
    BY <1>2, <1>3 DEF RegistrationInv, AloneIsOnly, KeptHasSecret
  <1>8. StoredIsDisputed'
    BY <1>3, <1>4, <1>5 DEF RegistrationInv, StoredIsDisputed, AloneIsOnly
  <1>9. AloneInStep'
    BY <1>2, <1>3, <1>4, <1>5
    DEF RegistrationInv, AloneInStep, AloneIsOnly, verifyReregistrationProof,
        verifySignature
  <1>10. NothingWhileDown'
    BY <1>2 DEF NothingWhileDown
  <1>11. LastHasSecret'
    BY <1>4, <1>5, CredentialsAssumption DEF RegistrationInv, LastHasSecret
  <1>12. OwnedKeepSecret'
    BY <1>2, <1>4, <1>5, CredentialsAssumption
    DEF RegistrationInv, OwnedKeepSecret, CredentialsTypeOK
  <1>13. AnsweredIsInForce'
    <2>1. ASSUME NEW b \in Agents \ {a}, last'[b] # NoRow
          PROVE  /\ rows'[b] = last'[b]
                 /\ up' => /\ registry'[b] = last'[b].reg
                           /\ secrets'[b] # NoSecret
                           /\ last'[b].secret = secrets'[b]
      BY <1>2, <1>5, <2>1 DEF RegistrationInv, AnsweredIsInForce, verifySignature
    <2>2. ASSUME last'[a] # NoRow
          PROVE  /\ rows'[a] = last'[a]
                 /\ registry'[a] = last'[a].reg
                 /\ secrets'[a] # NoSecret
                 /\ last'[a].secret = secrets'[a]
      <3>1. regs[n].alone /\ last'[a] = [reg |-> n, secret |-> regs[n].secret]
        BY <1>5, <2>2
      <3> QED
        BY <1>2, <1>4, <1>5, <1>6, <3>1, CredentialsAssumption
    <2> QED
      BY <2>1, <2>2 DEF AnsweredIsInForce, verifySignature
  <1> QED
    BY <1>1, <1>7, <1>8, <1>9, <1>10, <1>11, <1>12, <1>13 DEF RegistrationInv

LEMMA UnchangedInv ==
  ASSUME RegistrationInv, CredentialsTypeOK',
         UNCHANGED <<process, regs, rows, registry, secrets, owned, last>>
  PROVE  RegistrationInv'
  BY DEF RegistrationInv, AloneIsOnly, StoredIsDisputed, AloneInStep,
         KeptHasSecret, NothingWhileDown, LastHasSecret, OwnedKeepSecret,
         AnsweredIsInForce, verifyReregistrationProof, verifySignature, process

LEMMA CrashInv ==
  ASSUME RegistrationInv, Crash
  PROVE  RegistrationInv'
  <1>1. CredentialsTypeOK' /\ DOMAIN regs' = {}
    BY ProcessType, EmptyType DEF RegistrationInv, Crash
  <1>2. AloneIsOnly' /\ StoredIsDisputed' /\ AloneInStep' /\ KeptHasSecret'
    BY <1>1 DEF AloneIsOnly, StoredIsDisputed, AloneInStep, KeptHasSecret
  <1>3. NothingWhileDown'
    BY <1>1 DEF NothingWhileDown
  <1>4. ~up' /\ UNCHANGED <<rows, owned, last>>
    BY DEF Crash
  <1>5. LastHasSecret' /\ OwnedKeepSecret' /\ AnsweredIsInForce'
    BY <1>4
    DEF RegistrationInv, LastHasSecret, OwnedKeepSecret, AnsweredIsInForce
  <1> QED
    BY <1>1, <1>2, <1>3, <1>5 DEF RegistrationInv

LEMMA RestartInv ==
  ASSUME RegistrationInv, Restart
  PROVE  RegistrationInv'
  <1>1. CredentialsTypeOK'
    BY ProcessType DEF RegistrationInv
  <1>2. DOMAIN regs' = {}
    BY DEF RegistrationInv, NothingWhileDown, Restart
  <1>3. AloneIsOnly' /\ StoredIsDisputed' /\ AloneInStep' /\ KeptHasSecret'
        /\ NothingWhileDown'
    BY <1>2
    DEF AloneIsOnly, StoredIsDisputed, AloneInStep, KeptHasSecret, NothingWhileDown
  <1>4. /\ UNCHANGED <<rows, owned, last>>
        /\ \A a \in Agents : registry'[a] = rows[a].reg /\ secrets'[a] = rows[a].secret
    BY DEF Restart
  <1>5. LastHasSecret' /\ OwnedKeepSecret' /\ AnsweredIsInForce'
    BY <1>4
    DEF RegistrationInv, CredentialsTypeOK, LastHasSecret, OwnedKeepSecret,
        AnsweredIsInForce, verifySignature
  <1> QED
    BY <1>1, <1>3, <1>5 DEF RegistrationInv

LEMMA InductiveInv == CredentialsSpec => []RegistrationInv
  <1>1. ASSUME RegistrationInv, [CredentialsNext]_credentialsVars
        PROVE  RegistrationInv'
    <2>1. CASE UNCHANGED credentialsVars
      <3>1. CredentialsTypeOK'
        BY <1>1, <2>1
        DEF RegistrationInv, credentialsVars, process, allowlist, CredentialsTypeOK
      <3> QED
        BY <1>1, <2>1, <3>1, UnchangedInv DEF credentialsVars
    <2>2. ASSUME NEW r \in Requests, up, Arrive(r[1], r[2], r[3])
          PROVE  RegistrationInv'
      BY <1>1, <2>2, ArriveInv
    <2>3. CASE up /\ Register
      BY <1>1, <2>3, CheckInv, StoreInv, WriteInv, AnswerInv DEF Register
    <2>4. CASE \/ \E content \in Allowlists : WriteFile(content)
               \/ RemoveFile \/ TouchFile \/ WatchAllowlistFile \/ reloadAllowlist
      <3>1. CredentialsTypeOK'
        BY <1>1, <2>4, FileType DEF RegistrationInv
      <3>2. UNCHANGED <<process, regs, rows, registry, secrets, owned, last>>
        BY <2>4
        DEF WriteFile, RemoveFile, TouchFile, WatchAllowlistFile, reloadAllowlist,
            Edit
      <3> QED
        BY <1>1, <3>1, <3>2, UnchangedInv
    <2>5. CASE Crash \/ Restart
      BY <1>1, <2>5, CrashInv, RestartInv
    <2> QED
      BY <1>1, <2>1, <2>2, <2>3, <2>4, <2>5 DEF CredentialsNext
  <1> QED
    BY <1>1, InitInv, PTL DEF CredentialsSpec

(***************************************************************************)
(* Theorems                                                                *)
(***************************************************************************)

(* An agent whose registration was answered once keeps a secret in its row *)
(* and in the server, through any failures and crashes of the handshake    *)
(* (saveAgentTo, SetAgentSecret, loadPersistedAgentSecrets).               *)
THEOREM SecretsKept == CredentialsSpec => []OwnedKeepSecret
  BY InductiveInv, PTL DEF RegistrationInv

(* An answered registration that no other one disputes is what the row,    *)
(* the registry and the server's table hold, before and after any restart  *)
(* (handleRegisterAgent, setAgentSecret).                                  *)
THEOREM AnswersKept == CredentialsSpec => []AnsweredIsInForce
  BY InductiveInv, PTL DEF RegistrationInv

(* A secret is replaced only by a registration that was signed with it,    *)
(* or that overlapped another of its agent (verifyReregistrationProof).    *)
THEOREM RotationProved == CredentialsSpec => RotationIsProved
  <1> DEFINE Proved ==
        up /\ up' =>
          \A a \in Agents :
            secrets[a] # NoSecret /\ secrets'[a] # secrets[a] =>
              \E n \in DOMAIN regs :
                /\ regs[n].agent = a /\ regs[n].pc = "kept"
                /\ regs[n].secret = secrets'[a]
                /\ ~regs[n].alone \/ regs[n].key = secrets[a]
  <1>1. ASSUME RegistrationInv, CredentialsNext
        PROVE  Proved
    <2>1. CASE UNCHANGED secrets
      BY <2>1
    <2>2. CASE up /\ \E n \in DOMAIN regs : Answer(n)
      <3>1. PICK n \in DOMAIN regs : Answer(n)
        BY <2>2
      <3>2. /\ regs[n].pc = "kept" /\ regs[n].agent \in Agents
            /\ secrets' = [secrets EXCEPT ![regs[n].agent] = regs[n].secret]
        BY <1>1, <3>1
        DEF Answer, At, RegistrationInv, CredentialsTypeOK, Registration
      <3>3. regs[n].alone =>
              verifyReregistrationProof(regs[n].agent, regs[n].secret, regs[n].key)
        BY <1>1, <3>2 DEF RegistrationInv, AloneInStep
      <3> QED
        BY <1>1, <3>2, <3>3
        DEF verifyReregistrationProof, verifySignature, RegistrationInv,
            CredentialsTypeOK
    <2>3. CASE ~up \/ ~up'
      BY <2>3
    <2> QED
      BY <1>1, <2>1, <2>2, <2>3
      DEF CredentialsNext, Register, Arrive, CheckAllowed, CheckProof, StoreAgent,
          SaveAgent, SetAgentSecret, WriteFile, RemoveFile, TouchFile, Edit,
          WatchAllowlistFile, reloadAllowlist, Crash, Restart
  <1>2. RegistrationInv /\ [CredentialsNext]_credentialsVars =>
          [Proved]_credentialsVars
    BY <1>1
  <1> QED
    BY <1>2, InductiveInv, PTL DEF CredentialsSpec, RotationIsProved
=============================================================================
