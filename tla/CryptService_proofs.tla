-------------------------- MODULE CryptService_proofs --------------------------
(***************************************************************************)
(* Proofs about CryptService, for any tasks, links, documents, scripts and  *)
(* configurations.                                                         *)
(***************************************************************************)
EXTENDS CryptService, FiniteSetTheorems, TLAPS

-----------------------------------------------------------------------------
(* Constants and steps.                                                    *)

Document(u) == Web[u].kind = "media"

\* What a media playlist says has its type, and its keys are numbered from 1.
LEMMA Documents ==
  /\ \A u \in Url : Document(u) =>
       /\ DOMAIN Web[u].keys \subseteq 1 .. MaxKeys
       /\ \A k \in DOMAIN Web[u].keys : Web[u].keys[k] \in Method
       /\ Web[u].signature \in Provider \cup {Nobody}
  /\ \A u \in Url : Web[u].kind = "master" => Web[u].first \in Url
  /\ MaxKeys \in Nat
<1>1. ASSUME NEW u \in Url, Document(u)
      PROVE  /\ DOMAIN Web[u].keys \subseteq 1 .. MaxKeys
             /\ \A k \in DOMAIN Web[u].keys : Web[u].keys[k] \in Method
             /\ Web[u].signature \in Provider \cup {Nobody}
  <2>1. Web[u] \in Media
    BY <1>1, CryptAssumption DEF Document, Master, Media, Bad
  <2>2. Web[u].keys \in Seq(Method) /\ Web[u].signature \in Provider \cup {Nobody}
    BY <2>1 DEF Media
  <2>3. Len(Web[u].keys) \in Nat /\ Len(Web[u].keys) <= MaxKeys /\ MaxKeys \in Nat
    BY <1>1, <2>2, CryptAssumption DEF Document
  <2>4. DOMAIN Web[u].keys = 1 .. Len(Web[u].keys)
    BY <2>2
  <2>5. QED
    BY <2>2, <2>3, <2>4
<1>2. ASSUME NEW u \in Url, Web[u].kind = "master" PROVE Web[u].first \in Url
  <2>1. Web[u] \in Master
    BY <1>2, CryptAssumption DEF Master, Media, Bad
  <2>2. QED
    BY <2>1 DEF Master
<1>3. QED
  BY <1>1, <1>2, CryptAssumption

\* A configuration assigns scripts to methods; what it resolves to is a script,
\* the built-in decryptor or nobody.
LEMMA Configured ==
  ASSUME TypeOK, NEW m \in Method
  PROVE  /\ config.cli \in Script \cup {Nobody}
         /\ ExplicitScript(m) \in Script \cup {Nobody}
         /\ resolveTarget(m) \in Script \cup {"builtin", Nobody}
         /\ ExplicitScript(m) # Nobody => resolveTarget(m) = ExplicitScript(m)
<1>1. config \in ConfigType
  BY CryptAssumption DEF TypeOK
<1>2. /\ config.cli \in Script \cup {Nobody}
      /\ config.rule[m] \in Script \cup {Nobody} /\ config.auto[m] \in Script \cup {Nobody}
  BY <1>1 DEF ConfigType
<1>3. ExplicitScript(m) \in Script \cup {Nobody}
  BY <1>2 DEF ExplicitScript
<1>4. CASE ExplicitScript(m) # Nobody
  <2>1. resolveTarget(m) = ExplicitScript(m)
    BY <1>4 DEF resolveTarget
  <2>2. QED
    BY <1>2, <1>3, <1>4, <2>1
<1>5. CASE ExplicitScript(m) = Nobody
  <2>1. resolveTarget(m) \in {config.auto[m], "builtin", Nobody}
    BY <1>5 DEF resolveTarget
  <2>2. QED
    BY <1>2, <1>3, <1>5, <2>1
<1>6. QED
  BY <1>4, <1>5

-----------------------------------------------------------------------------
(* The inductive invariant, in parts.                                      *)

Unparsed == {"absent", "idle", "fetch"}
KeyHooks == {"key", "provider", "resolve", "load", "script"}
KeyPhase == KeyHooks \cup {"keys"}
SegmentHooks == {"segment", "loadSegment", "full"}
SegmentPhase == SegmentHooks \cup {"segments"}

\* A task that is past the fetch has a media playlist; one that has a key or a
\* segment in hand has one of the playlist's, and nothing is left to do that the
\* playlist does not have.
InHand ==
  \A t \in Task :
    /\ pc[t] \notin Unparsed \cup {"failed"} => Document(url[t])
    /\ pc[t] \in KeyPhase => todo[t] \subseteq Encrypted(t)
    /\ pc[t] \in KeyHooks => at[t] \in Encrypted(t)
    /\ pc[t] \in SegmentPhase => todo[t] \subseteq Keys(t)
    /\ pc[t] \in SegmentHooks => at[t] \in Keys(t)

\* The registry's mu is held by the task that loads a script, which is a script
\* that the cache does not have.
LoadsAlone ==
  \A t \in Task :
    /\ pc[t] \in Loading <=> mu = t
    /\ pc[t] \in Loading => Target(t) \in Script \ cache

\* Of each script there is one instance, which the cache has, or none.
InstancesCounted == \A s \in Script : loaded[s] = IF s \in cache THEN 1 ELSE 0

\* Only Close makes decryptors stale, and only a stale one is started again; a Close
\* that overtook nobody is followed by nothing.
CloseLast ==
  /\ ~closed => stale = {} /\ revived = {}
  /\ closed /\ overtaken = {} =>
       (\A t \in Task : Ended(t)) /\ cache = {} /\ revived = {}

\* No key is made before the playlist is parsed; each is made by the target of its
\* method, or left raw, or by a provider where no script is forced; and the segment
\* in hand is one whose key material is not empty.
Made(t, k) ==
  \/ material[t][k] = NoMaterial
  \/ /\ pc[t] \notin Unparsed \cup {"detect"}
     /\ \/ /\ k \in Keys(t)
           /\ material[t][k].by \in {resolveTarget(MethodOf(t, k)), "raw"}
        \/ /\ k \in Keys(t) /\ ExplicitScript(MethodOf(t, k)) = Nobody
           /\ material[t][k].by \in Provider

KeysMade ==
  \A t \in Task :
    /\ \A k \in 1 .. MaxKeys : Made(t, k)
    /\ pc[t] = "provider" => ExplicitScript(MethodOf(t, at[t])) = Nobody
    /\ pc[t] \in SegmentHooks => ~material[t][at[t]].empty

\* A segment is decrypted by the target of its method, with a key that was made.
PlainByTarget ==
  \A t \in Task, k \in 1 .. MaxKeys :
    plain[t][k] \in Script =>
      /\ k \in Keys(t) /\ pc[t] \notin Unparsed \cup KeyPhase \cup {"detect"}
      /\ plain[t][k] = resolveTarget(MethodOf(t, k))
      /\ material[t][k] # NoMaterial

\* There is one task, or no task can activate Tencent's provider.
OneProvider ==
  \/ \E t \in Task : \A o \in Task \ {t} : pc[o] = "absent"
  \/ ~params /\ active # Tencent

\* While a task makes its keys, the provider of its key URIs is the active one.
Signed(t) == Web[url[t]].signature # Nobody /\ Encrypted(t) # {}

ProviderHolds ==
  \A t \in Task : pc[t] \in KeyPhase /\ Signed(t) =>
    /\ active = Web[url[t]].signature
    /\ pc[t] \in {"resolve", "load", "script"} => HasExplicitScript(t)

\* Of the keys that a task with a signature has behind it, each for which the
\* command line and the rules name no script is made by the provider.
MadeAsSigned(t, k) ==
  ExplicitScript(MethodOf(t, k)) = Nobody => material[t][k].by = Web[url[t]].signature

CloudKeysSoFar ==
  \A t \in Task :
    /\ Document(url[t]) /\ Signed(t)
    => /\ Parsed(t) => \A k \in Encrypted(t) : MadeAsSigned(t, k)
       /\ pc[t] = "keys" => \A k \in Encrypted(t) \ todo[t] : MadeAsSigned(t, k)
       /\ pc[t] \in KeyHooks => \A k \in Encrypted(t) \ (todo[t] \cup {at[t]}) : MadeAsSigned(t, k)

-----------------------------------------------------------------------------
(* Types, the registry and what is in hand.                                *)

\* The steps in five groups.  The first moves the place of its task at most.
Moves(t) ==
  \/ FetchFails(t) \/ DetectFails(t) \/ FetchKeyFails(t) \/ ChooseHook(t)
  \/ ProviderKeyFails(t) \/ Hit(t) \/ ScriptKeyFails(t) \/ Finish(t)

KeyHook(t) == ProviderKey(t) \/ ScriptKey(t)

SegmentHook(t) == DecryptFull(t) \/ DecryptSegment(t) \/ Builtin(t)

AfterTyped == stale \subseteq Task /\ revived \subseteq External /\ overtaken \subseteq Task

Parsing(t) ==
  \/ Fetch(t) \/ Detect(t) \/ KeysDone(t)
  \/ \E k \in todo[t] : FetchKey(t, k) \/ Segment(t, k)

Resolving(t) == Miss(t) \/ Loaded(t) \/ LoadFails(t) \/ Unsupported(t)

\* Each step of a task is in one of the five groups.
LEMMA StepCases ==
  ASSUME NEW t \in Task, Step(t)
  PROVE  Moves(t) \/ KeyHook(t) \/ SegmentHook(t) \/ Parsing(t) \/ Resolving(t)
BY DEF Step, Hooks, Between, Moves, KeyHook, SegmentHook, Parsing, Resolving

\* What a step of a task does to what Close has left: at most it starts the process
\* of a stale decryptor.
LEMMA StepAfter ==
  ASSUME TypeOK, NEW t \in Task, Step(t)
  PROVE  /\ AfterTyped' /\ overtaken' = overtaken
         /\ stale' \subseteq stale /\ (stale = {} => revived' = revived)
<1>1. ASSUME NEW answered \in BOOLEAN, Call(t, answered)
      PROVE  /\ AfterTyped' /\ overtaken' = overtaken
             /\ stale' \subseteq stale /\ (stale = {} => revived' = revived)
  <2>1. Stopped(t) => t \in stale /\ Target(t) \in External
    BY DEF Stopped
  <2>2. overtaken' = overtaken /\ stale' = stale \ {t}
        /\ (revived' = revived \/ (Stopped(t) /\ revived' = revived \cup {Target(t)}))
    BY <1>1 DEF Call
  <2>3. QED
    BY <2>1, <2>2 DEF TypeOK, AfterTyped
<1>2. CASE Hooks(t)
  <2>1. \E answered \in BOOLEAN : Call(t, answered)
    BY <1>2 DEF Hooks, ScriptKey, ScriptKeyFails, DecryptFull, DecryptSegment, Builtin
  <2>2. QED
    BY <1>1, <2>1
<1>3. CASE UNCHANGED afterClose
  BY <1>3 DEF afterClose, TypeOK, AfterTyped
<1>4. QED
  BY <1>2, <1>3 DEF Step

\* A step of a task leaves the others where they are, with what they have.
LEMMA OthersKeep ==
  ASSUME TypeOK, NEW t \in Task, Step(t), NEW o \in Task, o # t
  PROVE  /\ pc'[o] = pc[o] /\ url'[o] = url[o] /\ todo'[o] = todo[o]
         /\ at'[o] = at[o] /\ material'[o] = material[o] /\ plain'[o] = plain[o]
<1> USE DEF TypeOK, Go, taskVars, sharedVars
<1>1. CASE Moves(t)
  BY <1>1 DEF Moves, FetchFails, DetectFails, FetchKeyFails, ChooseHook, ProviderKeyFails,
              Hit, ScriptKeyFails, Finish, Fails, Found
<1>2. CASE KeyHook(t)
  BY <1>2 DEF KeyHook, ProviderKey, ScriptKey, KeyMade
<1>3. CASE SegmentHook(t)
  BY <1>3 DEF SegmentHook, DecryptFull, DecryptSegment, Builtin, Decrypted
<1>4. CASE Fetch(t)
  BY <1>4 DEF Fetch
<1>5. CASE Detect(t) \/ KeysDone(t)
  BY <1>5 DEF Detect, KeysDone
<1>6. ASSUME NEW k, FetchKey(t, k) \/ Segment(t, k) PROVE
         /\ pc'[o] = pc[o] /\ url'[o] = url[o] /\ todo'[o] = todo[o]
         /\ at'[o] = at[o] /\ material'[o] = material[o] /\ plain'[o] = plain[o]
  BY <1>6 DEF FetchKey, Segment
<1>7. CASE Miss(t) \/ Loaded(t)
  BY <1>7 DEF Miss, Loaded, Load, Found
<1>8. CASE LoadFails(t) \/ Unsupported(t)
  BY <1>8 DEF LoadFails, Unsupported, GivesUp, NotDecrypted
<1>9. QED
  BY <1>1, <1>2, <1>3, <1>4, <1>5, <1>6, <1>7, <1>8, StepCases DEF Parsing, Resolving

Places == {"absent", "idle", "fetch", "detect", "keys", "key", "provider", "resolve", "load",
           "script", "segments", "segment", "loadSegment", "full", "done", "failed"}

PlainType == [Task -> [1 .. MaxKeys -> Script \cup {"builtin", "as is", "failed", Nobody}]]

\* Noting by whom a segment was decrypted keeps the type of the notes.
LEMMA PlainTyped ==
  ASSUME TypeOK, NEW t \in Task, NEW k, NEW by \in Script \cup {"builtin", "as is", "failed"}
  PROVE  plain \in PlainType /\ [plain EXCEPT ![t][k] = by] \in PlainType
BY DEF TypeOK, PlainType

\* Every variable keeps its type with a step of a task.
LEMMA StepTypes ==
  ASSUME TypeOK, InHand, LoadsAlone, InstancesCounted,
         NEW t \in Task, Step(t), UNCHANGED <<config, params>>
  PROVE  TypeOK'
<1>00. stale' \subseteq Task /\ revived' \subseteq External /\ overtaken' \subseteq Task
  BY StepAfter DEF AfterTyped
<1> USE <1>00 DEF Go, taskVars, sharedVars
<1>0. Document(url[t]) => /\ Encrypted(t) \subseteq Keys(t) /\ Keys(t) \subseteq 1 .. MaxKeys
                          /\ DetectFromKeyURI(t) \in Provider \cup {Nobody}
  BY Documents DEF TypeOK, Encrypted, Keys, DetectFromKeyURI
<1>1. CASE Moves(t)
  <2>1. PICK place \in Places : pc' = [pc EXCEPT ![t] = place]
    BY <1>1 DEF Moves, FetchFails, DetectFails, FetchKeyFails, ChooseHook, ProviderKeyFails,
                Hit, ScriptKeyFails, Finish, Fails, Found, Places
  <2>2. UNCHANGED <<sharedVars, url, todo, at, material, plain>>
    BY <1>1 DEF Moves, FetchFails, DetectFails, FetchKeyFails, ChooseHook, ProviderKeyFails,
                Hit, ScriptKeyFails, Finish, Fails
  <2>3. QED
    BY <2>1, <2>2 DEF TypeOK, Places
<1>2. CASE KeyHook(t)
  <2>1. PICK by \in Provider \cup Script \cup {"raw"}, empty \in BOOLEAN : KeyMade(t, by, empty)
    <3>1. CASE ProviderKey(t)
      BY <3>1 DEF ProviderKey, TypeOK
    <3>2. CASE ScriptKey(t)
      BY <3>2 DEF ScriptKey
    <3>3. QED
      BY <1>2, <3>1, <3>2 DEF KeyHook
  <2>2. material' \in [Task -> [1 .. MaxKeys ->
          [by : Provider \cup Script \cup {"raw", Nobody}, empty : BOOLEAN]]]
    BY <2>1 DEF KeyMade, TypeOK
  <2>3. QED
    BY <2>1, <2>2 DEF KeyMade, TypeOK
<1>3. ASSUME NEW by \in Script \cup {"builtin", "failed"}, Decrypted(t, by) PROVE TypeOK'
  <2>1. plain' \in [Task -> [1 .. MaxKeys -> Script \cup {"builtin", "as is", "failed", Nobody}]]
    BY <1>3 DEF Decrypted, TypeOK
  <2>2. QED
    BY <1>3, <2>1 DEF Decrypted, TypeOK
<1>4. CASE SegmentHook(t)
  BY <1>3, <1>4 DEF SegmentHook, DecryptFull, DecryptSegment, Builtin, Has
<1>5. CASE Fetch(t)
  <2>1. Web[url[t]].kind = "master" => Web[url[t]].first \in Url
    BY Documents DEF TypeOK
  <2>2. /\ UNCHANGED <<sharedVars, todo, at, material, plain>>
        /\ \/ pc' = [pc EXCEPT ![t] = "fetch"] /\ url' = [url EXCEPT ![t] = Web[url[t]].first]
              /\ Web[url[t]].kind = "master"
           \/ pc' = [pc EXCEPT ![t] = "detect"] /\ url' = url
           \/ pc' = [pc EXCEPT ![t] = "failed"] /\ url' = url
    BY <1>5 DEF Fetch
  <2>3. QED
    BY <2>1, <2>2 DEF TypeOK
<1>6. CASE Detect(t) \/ KeysDone(t)
  <2>1. Document(url[t])
    BY <1>6 DEF Detect, KeysDone, InHand, Unparsed
  <2>2. QED
    <3>0. active \in Provider \cup {Nobody}
      BY DEF TypeOK
    <3>1. active' \in Provider \cup {Nobody}
      <4>1. CASE Detect(t)
        BY <1>0, <2>1, <3>0, <4>1 DEF Detect
      <4>2. CASE KeysDone(t)
        BY <3>0, <4>2 DEF KeysDone
      <4>3. QED
        BY <1>6, <4>1, <4>2
    <3>2. todo' \in [Task -> SUBSET (1 .. MaxKeys)] /\ pc' \in [Task -> Places]
      BY <1>0, <1>6, <2>1 DEF Detect, KeysDone, TypeOK, Places
    <3>3. UNCHANGED <<mu, cache, loaded, closed, url, at, material, plain>>
      BY <1>6 DEF Detect, KeysDone
    <3>4. QED
      BY <3>1, <3>2, <3>3 DEF TypeOK, Places
<1>7. ASSUME NEW k \in todo[t], FetchKey(t, k) \/ Segment(t, k) PROVE TypeOK'
  <2>1. k \in 1 .. MaxKeys /\ k \in 0 .. MaxKeys
    <3>1. todo[t] \subseteq 1 .. MaxKeys /\ MaxKeys \in Nat
      BY Documents DEF TypeOK
    <3>2. QED
      BY <3>1
  <2>2. CASE FetchKey(t, k)
    <3>1. pc' = [pc EXCEPT ![t] = "key"] /\ UNCHANGED <<sharedVars, url, material, plain>>
      BY <2>2 DEF FetchKey
    <3>2. pc' \in [Task -> Places]
      BY <3>1 DEF TypeOK, Places
    <3>3. todo' \in [Task -> SUBSET (1 .. MaxKeys)] /\ at' \in [Task -> 0 .. MaxKeys]
      BY <2>1, <2>2 DEF FetchKey, TypeOK
    <3>4. QED
      BY <3>1, <3>2, <3>3 DEF TypeOK, Places
  <2>3. CASE Segment(t, k)
    <3>1. plain' \in [Task -> [1 .. MaxKeys -> Script \cup {"builtin", "as is", "failed", Nobody}]]
      <4>1. plain' \in PlainType
        <5>1. CASE material[t][k].empty
          <6>1. plain' = [plain EXCEPT ![t][k] = "as is"]
            BY <2>3, <5>1 DEF Segment
          <6>2. QED
            BY <6>1, PlainTyped
        <5>2. CASE ~material[t][k].empty
          BY <2>3, <5>2, PlainTyped DEF Segment
        <5>3. QED
          BY <5>1, <5>2
      <4>2. QED
        BY <4>1 DEF PlainType
    <3>2. pc' \in {pc, [pc EXCEPT ![t] = "segment"]}
      BY <2>3 DEF Segment
    <3>3. QED
      BY <2>1, <2>3, <3>1, <3>2 DEF Segment, TypeOK
  <2>4. QED
    BY <1>7, <2>2, <2>3
<1>8. CASE Miss(t)
  <2>1. /\ mu' = t /\ UNCHANGED <<active, cache, loaded, closed, url, todo, at, material, plain>>
        /\ \E place \in Places : pc' = [pc EXCEPT ![t] = place]
    BY <1>8 DEF Miss, Load, Places
  <2>2. QED
    BY <2>1 DEF TypeOK, Places
<1>9. CASE Loaded(t)
  <2>1. Target(t) \in Script \ cache
    BY <1>9 DEF Loaded, LoadsAlone
  <2>2. loaded[Target(t)] = 0
    BY <2>1 DEF InstancesCounted
  <2>3. Cardinality(Task) \in Nat /\ Cardinality(Task) >= 1
    BY FS_CardinalityType, FS_EmptySet, CryptAssumption
  <2>4. loaded' \in [Script -> 0 .. Cardinality(Task)]
    <3>1. loaded' = [loaded EXCEPT ![Target(t)] = loaded[Target(t)] + 1]
      BY <1>9 DEF Loaded
    <3>2. 0 + 1 \in 0 .. Cardinality(Task)
      BY <2>3
    <3>3. QED
      BY <2>1, <2>2, <3>1, <3>2 DEF TypeOK
  <2>5. QED
    <3>1. /\ mu' = Nobody /\ cache' = cache \cup {Target(t)}
          /\ UNCHANGED <<active, closed, url, todo, at, material, plain>>
          /\ \E place \in Places : pc' = [pc EXCEPT ![t] = place]
      BY <1>9 DEF Loaded, Found, Places
    <3>2. QED
      BY <2>1, <2>4, <3>1 DEF TypeOK, Places
<1>10. CASE LoadFails(t) \/ Unsupported(t)
  <2>1. /\ mu' \in {mu, Nobody} /\ UNCHANGED <<active, cache, loaded, closed, url, todo, at, material>>
        /\ pc' \in {[pc EXCEPT ![t] = "failed"], [pc EXCEPT ![t] = "segments"]}
        /\ plain' = plain \/ plain' = [plain EXCEPT ![t][at[t]] = "failed"]
    BY <1>10 DEF LoadFails, Unsupported, GivesUp, NotDecrypted
  <2>2. plain' \in [Task -> [1 .. MaxKeys -> Script \cup {"builtin", "as is", "failed", Nobody}]]
    <3>1. plain \in PlainType /\ [plain EXCEPT ![t][at[t]] = "failed"] \in PlainType
      BY PlainTyped
    <3>2. QED
      BY <2>1, <3>1 DEF PlainType
  <2>3. QED
    BY <2>1, <2>2 DEF TypeOK
<1>11. QED
  BY <1>1, <1>2, <1>4, <1>5, <1>6, <1>7, <1>8, <1>9, <1>10, StepCases DEF Parsing, Resolving

\* What a step of a task does to its own task, as far as its hands are concerned.
LEMMA StepInHand ==
  ASSUME TypeOK, InHand, NEW t \in Task, Step(t), UNCHANGED <<config, params>>
  PROVE  InHand'
<1> USE DEF Go, Unparsed, KeyPhase, KeyHooks, SegmentHooks, SegmentPhase
<1>0. /\ pc[t] \notin Unparsed \cup {"failed"} => Document(url[t])
      /\ pc[t] \in KeyPhase => todo[t] \subseteq Encrypted(t)
      /\ pc[t] \in KeyHooks => at[t] \in Encrypted(t)
      /\ pc[t] \in SegmentPhase => todo[t] \subseteq Keys(t)
      /\ pc[t] \in SegmentHooks => at[t] \in Keys(t)
  BY DEF InHand
<1> DEFINE Held == /\ pc'[t] \notin Unparsed \cup {"failed"} => Document(url'[t])
                   /\ pc'[t] \in KeyPhase => todo'[t] \subseteq Encrypted(t)'
                   /\ pc'[t] \in KeyHooks => at'[t] \in Encrypted(t)'
                   /\ pc'[t] \in SegmentPhase => todo'[t] \subseteq Keys(t)'
                   /\ pc'[t] \in SegmentHooks => at'[t] \in Keys(t)'
<1>1. ASSUME url'[t] = url[t] PROVE Keys(t)' = Keys(t) /\ Encrypted(t)' = Encrypted(t)
  BY <1>1 DEF Keys, Encrypted, MethodOf
<1>2. ASSUME UNCHANGED <<url, todo, at>>,
             \/ pc'[t] = pc[t]
             \/ pc'[t] = "failed"
             \/ pc[t] \in KeyPhase /\ pc'[t] = "keys"
             \/ pc[t] \in KeyHooks /\ pc'[t] \in KeyHooks
             \/ pc[t] \in SegmentPhase /\ pc'[t] \in {"segments", "done"}
             \/ pc[t] \in SegmentHooks /\ pc'[t] \in SegmentHooks
      PROVE  Held
  <2>1. url'[t] = url[t] /\ todo'[t] = todo[t] /\ at'[t] = at[t]
    BY <1>2
  <2>2. Keys(t)' = Keys(t) /\ Encrypted(t)' = Encrypted(t)
    BY <1>1, <2>1
  <2>3. QED
    BY <1>0, <1>2, <2>1, <2>2
<1>3. ASSUME Moves(t) PROVE Held
  <2>1. UNCHANGED <<url, todo, at>>
    BY <1>3 DEF Moves, FetchFails, DetectFails, FetchKeyFails, ChooseHook, ProviderKeyFails,
                Hit, ScriptKeyFails, Finish, Fails
  <2>2. CASE FetchFails(t) \/ DetectFails(t) \/ FetchKeyFails(t) \/ ProviderKeyFails(t)
             \/ ScriptKeyFails(t)
    <3>1. pc'[t] = "failed"
      BY <2>2 DEF FetchFails, DetectFails, FetchKeyFails, ProviderKeyFails, ScriptKeyFails,
                  Fails, TypeOK
    <3>2. QED
      BY <1>2, <2>1, <3>1
  <2>3. CASE ChooseHook(t)
    <3>1. pc[t] = "key" /\ pc'[t] \in {"provider", "resolve"}
      BY <2>3 DEF ChooseHook, TypeOK
    <3>2. QED
      BY <1>2, <2>1, <3>1
  <2>4. CASE Hit(t) \/ Finish(t)
    <3>1. \/ pc[t] = "resolve" /\ pc'[t] = "script"
          \/ pc[t] = "segment" /\ pc'[t] = "full"
          \/ pc[t] = "segments" /\ pc'[t] = "done"
      BY <2>4 DEF Hit, Finish, Found, Looking, TypeOK
    <3>2. QED
      BY <1>2, <2>1, <3>1
  <2>5. QED
    BY <1>3, <2>2, <2>3, <2>4 DEF Moves
<1>4. ASSUME KeyHook(t) PROVE Held
  <2>1. /\ UNCHANGED <<url, todo, at>> /\ pc[t] \in KeyHooks
        /\ pc'[t] = "keys"
    BY <1>4 DEF KeyHook, ProviderKey, ScriptKey, KeyMade, TypeOK
  <2>2. QED
    BY <1>2, <2>1
<1>5. ASSUME Fetch(t) PROVE Held
  <2>1. \/ pc'[t] = "fetch" \/ pc'[t] = "failed"
        \/ pc'[t] = "detect" /\ url' = url /\ Web[url[t]].kind = "media"
    BY <1>5 DEF Fetch, TypeOK
  <2>2. pc'[t] = "detect" => Document(url'[t])
    BY <2>1 DEF Document
  <2>3. QED
    BY <2>1, <2>2
<1>6. ASSUME Detect(t) \/ KeysDone(t) PROVE Held
  <2>1. /\ url' = url /\ Document(url[t])
        /\ \/ pc'[t] = "keys" /\ todo'[t] = Encrypted(t)
           \/ pc'[t] = "segments" /\ todo'[t] = Keys(t)
    BY <1>0, <1>6 DEF Detect, KeysDone, TypeOK
  <2>2. Keys(t)' = Keys(t) /\ Encrypted(t)' = Encrypted(t) /\ Document(url'[t])
    BY <1>1, <2>1
  <2>3. Encrypted(t) \subseteq Keys(t)
    BY DEF Encrypted
  <2>4. QED
    BY <2>1, <2>2
<1>7. ASSUME NEW k \in todo[t], FetchKey(t, k) \/ Segment(t, k) PROVE Held
  <2>1. CASE FetchKey(t, k)
    <3>1. /\ url' = url /\ pc[t] = "keys" /\ pc'[t] = "key"
          /\ todo'[t] = todo[t] \ {k} /\ at'[t] = k
      BY <2>1 DEF FetchKey, TypeOK
    <3>2. QED
      BY <1>0, <1>1, <3>1
  <2>2. CASE Segment(t, k)
    <3>1. /\ url' = url /\ pc[t] = "segments" /\ pc'[t] \in {"segments", "segment"}
          /\ todo'[t] = todo[t] \ {k} /\ at'[t] = k
      BY <2>2 DEF Segment, TypeOK
    <3>2. QED
      BY <1>0, <1>1, <3>1
  <2>3. QED
    BY <1>7, <2>1, <2>2
<1>8. ASSUME Resolving(t) PROVE Held
  <2>1. UNCHANGED <<url, todo, at>>
    BY <1>8 DEF Resolving, Miss, Loaded, LoadFails, Unsupported, GivesUp, NotDecrypted
  <2>2. \/ pc[t] \in KeyHooks /\ pc'[t] \in {"load", "script", "failed"}
        \/ pc[t] \in SegmentHooks /\ pc'[t] \in {"loadSegment", "full", "segments"}
    BY <1>8 DEF Resolving, Miss, Load, Loaded, Found, LoadFails, Unsupported, GivesUp,
                NotDecrypted, Looking, Loading, TypeOK
  <2>3. QED
    BY <1>2, <2>1, <2>2
<1>9. ASSUME SegmentHook(t) PROVE Held
  <2>1. /\ UNCHANGED <<url, todo, at>> /\ pc[t] \in SegmentHooks
        /\ pc'[t] = "segments"
    BY <1>9 DEF SegmentHook, DecryptFull, DecryptSegment, Builtin, Decrypted, TypeOK
  <2>2. QED
    BY <1>2, <2>1
<1>10. Held
  BY <1>3, <1>4, <1>5, <1>6, <1>7, <1>8, <1>9, StepCases DEF Parsing
<1>11. ASSUME NEW o \in Task, o # t
       PROVE /\ pc'[o] \notin Unparsed \cup {"failed"} => Document(url'[o])
             /\ pc'[o] \in KeyPhase => todo'[o] \subseteq Encrypted(o)'
             /\ pc'[o] \in KeyHooks => at'[o] \in Encrypted(o)'
             /\ pc'[o] \in SegmentPhase => todo'[o] \subseteq Keys(o)'
             /\ pc'[o] \in SegmentHooks => at'[o] \in Keys(o)'
  BY <1>11, OthersKeep DEF InHand, Encrypted, Keys, MethodOf
<1>12. QED
  BY <1>10, <1>11 DEF InHand

\* What a step does to the registry: a task takes mu, gives it back with or without
\* an instance of the script it has loaded, or has nothing to do with it.
LEMMA StepRegistry ==
  ASSUME TypeOK, NEW t \in Task, Step(t)
  PROVE  \/ /\ Miss(t) /\ mu = Nobody /\ mu' = t /\ pc'[t] \in Loading
            /\ Target(t) \in Script \ cache
            /\ UNCHANGED <<cache, loaded, url, at>>
         \/ /\ pc[t] \in Loading /\ pc'[t] \notin Loading /\ mu' = Nobody
            /\ UNCHANGED <<cache, loaded, url, at>>
         \/ /\ pc[t] \in Loading /\ pc'[t] \notin Loading /\ mu' = Nobody
            /\ cache' = cache \cup {Target(t)}
            /\ loaded' = [loaded EXCEPT ![Target(t)] = @ + 1]
         \/ /\ pc[t] \notin Loading /\ pc'[t] \notin Loading
            /\ UNCHANGED <<mu, cache, loaded>>
<1> USE DEF Go, taskVars, sharedVars, Loading, TypeOK
<1>1. CASE Moves(t)
  BY <1>1 DEF Moves, FetchFails, DetectFails, FetchKeyFails, ChooseHook, ProviderKeyFails,
              Hit, ScriptKeyFails, Finish, Fails, Found, Looking
<1>2. CASE KeyHook(t)
  BY <1>2 DEF KeyHook, ProviderKey, ScriptKey, KeyMade
<1>3. CASE SegmentHook(t)
  BY <1>3 DEF SegmentHook, DecryptFull, DecryptSegment, Builtin, Decrypted
<1>4. CASE Fetch(t)
  BY <1>4 DEF Fetch
<1>5. CASE Detect(t) \/ KeysDone(t)
  BY <1>5 DEF Detect, KeysDone
<1>6. CASE \E k \in todo[t] : FetchKey(t, k) \/ Segment(t, k)
  BY <1>6 DEF FetchKey, Segment
<1>7. CASE Miss(t)
  BY <1>7 DEF Miss, Load, Looking
<1>8. CASE Loaded(t)
  BY <1>8 DEF Loaded, Found
<1>9. CASE LoadFails(t) \/ Unsupported(t)
  BY <1>9 DEF LoadFails, Unsupported, GivesUp, NotDecrypted, Looking
<1>10. QED
  BY <1>1, <1>2, <1>3, <1>4, <1>5, <1>6, <1>7, <1>8, <1>9, StepCases DEF Parsing, Resolving

\* A target does not change for a task that keeps its link and its key.
LEMMA SameTarget ==
  ASSUME config' = config, NEW o \in Task, url'[o] = url[o], at'[o] = at[o]
  PROVE  Target(o)' = Target(o) /\ MethodOf(o, at[o])' = MethodOf(o, at[o])
BY DEF Target, MethodOf, resolveTarget, ExplicitScript

\* The registry and the instances keep their invariant.
LEMMA StepRegistryHolds ==
  ASSUME TypeOK, LoadsAlone, InstancesCounted, NEW t \in Task, Step(t),
         UNCHANGED <<config, params>>
  PROVE  LoadsAlone' /\ InstancesCounted'
<1>1. Nobody \notin Task
  BY CryptAssumption
<1>2. \A o \in Task : o # t => pc'[o] = pc[o] /\ url'[o] = url[o] /\ at'[o] = at[o]
  BY OthersKeep
<1>3. \A o \in Task : o # t => Target(o)' = Target(o)
  BY <1>2, SameTarget
<1>4. CASE /\ Miss(t) /\ mu = Nobody /\ mu' = t /\ pc'[t] \in Loading
           /\ Target(t) \in Script \ cache
           /\ UNCHANGED <<cache, loaded, url, at>>
  <2>1. Target(t)' = Target(t)
    BY <1>4, SameTarget
  <2>2. \A o \in Task : pc'[o] \in Loading <=> o = t
    BY <1>1, <1>2, <1>4 DEF LoadsAlone
  <2>3. QED
    BY <1>4, <2>1, <2>2 DEF LoadsAlone, InstancesCounted
<1>5. CASE pc[t] \in Loading /\ pc'[t] \notin Loading /\ mu' = Nobody
  <2>1. \A o \in Task : pc'[o] \notin Loading
    BY <1>1, <1>2, <1>5 DEF LoadsAlone
  <2>2. LoadsAlone'
    BY <1>1, <1>5, <2>1 DEF LoadsAlone
  <2>3. CASE UNCHANGED <<cache, loaded>>
    BY <2>2, <2>3 DEF InstancesCounted
  <2>4. CASE /\ cache' = cache \cup {Target(t)}
             /\ loaded' = [loaded EXCEPT ![Target(t)] = @ + 1]
    <3>1. Target(t) \in Script /\ Target(t) \notin cache
      BY <1>5 DEF LoadsAlone
    <3>2. \A s \in Script : loaded'[s] = IF s = Target(t) THEN loaded[s] + 1 ELSE loaded[s]
      BY <2>4 DEF TypeOK
    <3>3. loaded[Target(t)] = 0
      BY <3>1 DEF InstancesCounted
    <3>4. ASSUME NEW s \in Script PROVE loaded'[s] = IF s \in cache' THEN 1 ELSE 0
      BY <2>4, <3>1, <3>2, <3>3 DEF InstancesCounted
    <3>5. QED
      BY <2>2, <3>4 DEF InstancesCounted
  <2>5. QED
    BY <1>5, <2>3, <2>4, StepRegistry, <1>1 DEF LoadsAlone
<1>6. CASE /\ pc[t] \notin Loading /\ pc'[t] \notin Loading
           /\ UNCHANGED <<mu, cache, loaded>>
  <2>1. LoadsAlone'
    BY <1>2, <1>3, <1>6 DEF LoadsAlone
  <2>2. QED
    BY <1>6, <2>1 DEF InstancesCounted
<1>7. QED
  BY <1>4, <1>5, <1>6, StepRegistry

\* Close finds every instance: no script is being loaded, and those in the cache
\* are all there are.
LEMMA CloseHolds ==
  ASSUME TypeOK, InHand, LoadsAlone, InstancesCounted, Close, UNCHANGED <<config, params>>
  PROVE  TypeOK' /\ InHand' /\ LoadsAlone' /\ InstancesCounted'
<1> USE DEF Close, taskVars
<1>1. ASSUME NEW s \in Script PROVE loaded'[s] = 0
  <2>1. loaded'[s] = IF s \in cache THEN loaded[s] - 1 ELSE loaded[s]
    OBVIOUS
  <2>2. loaded[s] = IF s \in cache THEN 1 ELSE 0
    BY DEF InstancesCounted
  <2>3. QED
    BY <2>1, <2>2
<1>2. Cardinality(Task) \in Nat
  BY FS_CardinalityType, CryptAssumption
<1>3. loaded' \in [Script -> 0 .. Cardinality(Task)]
  <2>1. loaded' = [s \in Script |-> loaded'[s]]
    OBVIOUS
  <2>2. QED
    BY <1>1, <1>2, <2>1
<1>4. TypeOK'
  BY <1>3 DEF TypeOK
<1>5. InHand'
  BY DEF InHand, Encrypted, Keys, MethodOf
<1>6. \A t \in Task : pc[t] \notin Loading /\ pc'[t] \notin Loading /\ mu' = mu /\ mu # t
  BY CryptAssumption DEF LoadsAlone
<1>7. LoadsAlone'
  BY <1>6 DEF LoadsAlone
<1>8. InstancesCounted'
  BY <1>1 DEF InstancesCounted
<1>9. QED
  BY <1>4, <1>5, <1>7, <1>8

\* Nothing is loaded, held or waited for at the beginning.
LEMMA InitHolds ==
  ASSUME Init
  PROVE  TypeOK /\ InHand /\ LoadsAlone /\ InstancesCounted
<1> USE DEF Init
<1>1. Cardinality(Task) \in Nat /\ MaxKeys \in Nat
  BY FS_CardinalityType, CryptAssumption
<1>2. \A t \in Task : pc[t] \in {"idle", "absent"} /\ t # Nobody
  BY CryptAssumption
<1>3. config \in Config /\ params \in BOOLEAN /\ active \in Provider \cup {Nobody}
      /\ mu \in Task \cup {Nobody} /\ cache \subseteq Script /\ closed \in BOOLEAN
      /\ url \in [Task -> Url]
  OBVIOUS
<1>4. loaded \in [Script -> 0 .. Cardinality(Task)] /\ at \in [Task -> 0 .. MaxKeys]
      /\ todo \in [Task -> SUBSET (1 .. MaxKeys)]
  BY <1>1
<1>5. material \in [Task -> [1 .. MaxKeys ->
        [by : Provider \cup Script \cup {"raw", Nobody}, empty : BOOLEAN]]]
  BY DEF NoMaterial
<1>6. plain \in [Task -> [1 .. MaxKeys -> Script \cup {"builtin", "as is", "failed", Nobody}]]
  OBVIOUS
<1>7. TypeOK
  BY <1>3, <1>4, <1>5, <1>6 DEF TypeOK
<1>8. InHand
  BY <1>2 DEF InHand, Unparsed, KeyPhase, KeyHooks, SegmentPhase, SegmentHooks
<1>9. LoadsAlone /\ InstancesCounted
  BY <1>2 DEF LoadsAlone, InstancesCounted, Loading
<1>10. QED
  BY <1>7, <1>8, <1>9

\* The types, for any number of tasks, scripts and playlists: in particular a task
\* that looks for a decryptor has a key in hand that its playlist has, and no script
\* has more instances than there are tasks.
THEOREM TypeCorrect == Spec => [](TypeOK /\ InHand /\ LoadsAlone /\ InstancesCounted)
<1>1. ASSUME TypeOK, InHand, LoadsAlone, InstancesCounted, [Next]_vars
      PROVE  TypeOK' /\ InHand' /\ LoadsAlone' /\ InstancesCounted'
  <2>1. CASE UNCHANGED vars
    BY <1>1, <2>1 DEF vars, sharedVars, afterClose, taskVars, TypeOK, InHand, LoadsAlone, InstancesCounted,
                      Encrypted, Keys, MethodOf, Target, resolveTarget, ExplicitScript
  <2>2. ASSUME NEW t \in Task, Step(t), UNCHANGED <<config, params>>
        PROVE  TypeOK' /\ InHand' /\ LoadsAlone' /\ InstancesCounted'
    BY <1>1, <2>2, StepTypes, StepInHand, StepRegistryHolds
  <2>3. QED
    BY <1>1, <2>1, <2>2, CloseHolds DEF Next
<1>2. QED
  BY <1>1, InitHolds, PTL DEF Spec

\* A task that takes a step has not ended, and leaves it to Close to be called.
LEMMA Running ==
  ASSUME NEW t \in Task, Step(t)
  PROVE  ~Ended(t) /\ closed' = closed
<1> USE DEF sharedVars, taskVars, Ended
<1>1. CASE Moves(t)
  BY <1>1 DEF Moves, FetchFails, DetectFails, FetchKeyFails, ChooseHook, ProviderKeyFails,
              Hit, ScriptKeyFails, Finish, Fails, Looking
<1>2. CASE KeyHook(t)
  BY <1>2 DEF KeyHook, ProviderKey, ScriptKey, KeyMade
<1>3. CASE SegmentHook(t)
  BY <1>3 DEF SegmentHook, DecryptFull, DecryptSegment, Builtin, Decrypted
<1>4. CASE Fetch(t) \/ Detect(t) \/ KeysDone(t)
  BY <1>4 DEF Fetch, Detect, KeysDone
<1>5. CASE \E k \in todo[t] : FetchKey(t, k) \/ Segment(t, k)
  BY <1>5 DEF FetchKey, Segment
<1>6. CASE Resolving(t)
  BY <1>6 DEF Resolving, Miss, Loaded, LoadFails, Unsupported, GivesUp, NotDecrypted,
              Looking, Loading
<1>7. QED
  BY <1>1, <1>2, <1>3, <1>4, <1>5, <1>6, StepCases DEF Parsing

\* Of every script there is one instance, which the cache has, or none, whatever tasks
\* look for it; and a Close that overtakes no task leaves no instance, and no process
\* that was started again, behind: nothing comes after it.
THEOREM NothingLeftBehindCorrect == Spec => []NothingLeftBehind
<1> DEFINE Inv == TypeOK /\ InHand /\ LoadsAlone /\ InstancesCounted
<1>1. Init => CloseLast
  BY DEF Init, CloseLast
<1>2. ASSUME Inv, CloseLast, [Next]_vars PROVE CloseLast'
  <2>1. CASE UNCHANGED vars
    BY <1>2, <2>1 DEF vars, sharedVars, afterClose, taskVars, CloseLast, Ended
  <2>2. ASSUME NEW t \in Task, Step(t) PROVE CloseLast'
    <3>1. /\ ~Ended(t) /\ closed' = closed /\ overtaken' = overtaken
      BY <1>2, <2>2, Running, StepAfter
    <3>2. CASE ~closed
      BY <1>2, <2>2, <3>1, <3>2, StepAfter DEF CloseLast
    <3>3. CASE closed
      BY <1>2, <3>1, <3>3 DEF CloseLast
    <3>4. QED
      BY <3>2, <3>3
  <2>3. CASE Close
    <3>1. ~closed /\ closed' = TRUE /\ cache' = {} /\ revived' = revived
      BY <2>3 DEF Close
    <3>2. overtaken' = {} => \A t \in Task : Ended(t)
      BY <2>3 DEF Close
    <3>3. pc' = pc
      BY <2>3 DEF Close, taskVars
    <3>4. QED
      BY <1>2, <3>1, <3>2, <3>3 DEF CloseLast, Ended
  <2>4. QED
    BY <1>2, <2>1, <2>2, <2>3 DEF Next
<1>3. InstancesCounted /\ CloseLast => NothingLeftBehind
  BY DEF InstancesCounted, CloseLast, NothingLeftBehind
<1>4. Spec => []Inv
  BY TypeCorrect
<1>5. QED
  BY <1>1, <1>2, <1>3, <1>4, PTL DEF Spec

-----------------------------------------------------------------------------
(* Keys, and the segments decrypted with them.                              *)

\* The life of a task: fetch, detection, keys, segments.  It keeps its link once it
\* has its playlist, and only a hook of a key makes key material.
LEMMA Phases ==
  ASSUME TypeOK, NEW t \in Task, Step(t)
  PROVE  /\ pc[t] \notin {"absent", "failed", "done"}
         /\ pc[t] \in Unparsed => pc'[t] \in {"fetch", "detect", "failed"}
         /\ pc[t] = "detect" => pc'[t] \in {"keys", "failed"}
         /\ pc[t] \in KeyPhase => pc'[t] \in KeyPhase \cup {"segments", "failed"}
         /\ pc[t] \in SegmentPhase => pc'[t] \in SegmentPhase \cup {"done"}
         /\ pc[t] \notin Unparsed => url' = url
         /\ KeyHook(t) \/ material' = material
<1> USE DEF Go, taskVars, sharedVars, TypeOK, Unparsed, KeyPhase, KeyHooks, SegmentPhase,
            SegmentHooks
<1>1. CASE FetchFails(t) \/ DetectFails(t) \/ FetchKeyFails(t) \/ ProviderKeyFails(t)
           \/ ScriptKeyFails(t)
  BY <1>1 DEF FetchFails, DetectFails, FetchKeyFails, ProviderKeyFails, ScriptKeyFails, Fails
<1>2. CASE ChooseHook(t) \/ Hit(t) \/ Finish(t)
  BY <1>2 DEF ChooseHook, Hit, Finish, Found, Looking
<1>3. CASE KeyHook(t)
  BY <1>3 DEF KeyHook, ProviderKey, ScriptKey, KeyMade
<1>4. CASE SegmentHook(t)
  BY <1>4 DEF SegmentHook, DecryptFull, DecryptSegment, Builtin, Decrypted
<1>5. CASE Fetch(t)
  BY <1>5 DEF Fetch
<1>6. CASE Detect(t) \/ KeysDone(t)
  BY <1>6 DEF Detect, KeysDone
<1>7. CASE \E k \in todo[t] : FetchKey(t, k) \/ Segment(t, k)
  BY <1>7 DEF FetchKey, Segment
<1>8. CASE Miss(t) \/ Loaded(t)
  BY <1>8 DEF Miss, Loaded, Load, Found, Looking, Loading
<1>9. CASE LoadFails(t) \/ Unsupported(t)
  BY <1>9 DEF LoadFails, Unsupported, GivesUp, NotDecrypted, Looking, Loading
<1>10. QED
  BY <1>1, <1>2, <1>3, <1>4, <1>5, <1>6, <1>7, <1>8, <1>9, StepCases
     DEF Moves, Parsing, Resolving

\* A task that keeps its link keeps what its playlist and the configuration say.
LEMMA SamePlaylist ==
  ASSUME config' = config, NEW o \in Task, url'[o] = url[o]
  PROVE  /\ Keys(o)' = Keys(o) /\ Encrypted(o)' = Encrypted(o) /\ (Signed(o))' = Signed(o)
         /\ \A k : /\ MethodOf(o, k)' = MethodOf(o, k)
                   /\ ExplicitScript(MethodOf(o, k))' = ExplicitScript(MethodOf(o, k))
                   /\ resolveTarget(MethodOf(o, k))' = resolveTarget(MethodOf(o, k))
BY DEF Keys, Encrypted, Signed, MethodOf, ExplicitScript, resolveTarget

\* What is in hand has a method, and what resolves it is known.
LEMMA HandConfigured ==
  ASSUME TypeOK, InHand, NEW t \in Task, pc[t] \in KeyHooks \cup SegmentHooks
  PROVE  /\ at[t] \in Keys(t) /\ at[t] \in 1 .. MaxKeys /\ MethodOf(t, at[t]) \in Method
         /\ Target(t) \in Script \cup {"builtin", Nobody}
         /\ HasExplicitScript(t) => Target(t) = ExplicitScript(MethodOf(t, at[t]))
<1>1. Document(url[t]) /\ url[t] \in Url
  BY DEF InHand, TypeOK, KeyHooks, SegmentHooks, Unparsed
<1>2. at[t] \in Keys(t)
  BY DEF InHand, Encrypted
<1>3. at[t] \in 1 .. MaxKeys /\ MethodOf(t, at[t]) \in Method
  BY <1>1, <1>2, Documents DEF Keys, MethodOf
<1>4. QED
  BY <1>2, <1>3, Configured DEF Target, HasExplicitScript

\* Who a hook says has made the key in hand.
LEMMA HookMakes ==
  ASSUME TypeOK, InHand, KeysMade, NEW t \in Task, KeyHook(t)
  PROVE  /\ pc[t] \in {"provider", "script"} /\ pc'[t] = "keys" /\ at[t] \in Keys(t)
         /\ UNCHANGED <<active, url, todo, at, plain>>
         /\ \E by, empty :
              /\ material' = [material EXCEPT ![t][at[t]] = [by |-> by, empty |-> empty]]
              /\ \/ /\ pc[t] = "provider" /\ ~HasExplicitScript(t)
                    /\ by = active /\ active \in Provider
                 \/ pc[t] = "script" /\ by \in {Target(t), "raw"}
<1> USE DEF Go, sharedVars
<1>1. pc[t] \in {"provider", "script"} /\ pc'[t] = "keys"
  BY DEF KeyHook, ProviderKey, ScriptKey, KeyMade, TypeOK
<1>2. at[t] \in Keys(t)
  BY <1>1, HandConfigured DEF KeyHooks
<1>3. UNCHANGED <<active, url, todo, at, plain>>
  BY DEF KeyHook, ProviderKey, ScriptKey, KeyMade
<1>4. CASE ProviderKey(t)
  <2>1. ~HasExplicitScript(t) /\ active \in Provider /\ pc[t] = "provider"
    BY <1>4 DEF ProviderKey, KeysMade, HasExplicitScript, TypeOK
  <2>2. PICK empty : KeyMade(t, active, empty)
    BY <1>4 DEF ProviderKey
  <2>3. QED
    BY <1>1, <1>2, <1>3, <2>1, <2>2 DEF KeyMade
<1>5. CASE ScriptKey(t)
  <2>1. PICK by \in {Target(t), "raw"}, empty \in BOOLEAN : KeyMade(t, by, empty)
    BY <1>5 DEF ScriptKey
  <2>2. QED
    BY <1>1, <1>2, <1>3, <1>5, <2>1 DEF KeyMade, ScriptKey
<1>6. QED
  BY <1>4, <1>5 DEF KeyHook

\* Each step makes a key as its method or the provider of its playlist says.
LEMMA StepKeysMade ==
  ASSUME TypeOK, InHand, KeysMade, NEW t \in Task, Step(t), UNCHANGED <<config, params>>
  PROVE  KeysMade'
<1>1. ASSUME NEW o \in Task, o # t, NEW k \in 1 .. MaxKeys PROVE Made(o, k)'
  <2>1. url'[o] = url[o] /\ pc'[o] = pc[o] /\ material'[o] = material[o]
    BY <1>1, OthersKeep
  <2>2. Made(o, k)
    BY DEF KeysMade
  <2>3. QED
    BY <2>1, <2>2, SamePlaylist DEF Made, NoMaterial
<1>2. ASSUME NEW k \in 1 .. MaxKeys, material'[t][k] = material[t][k] PROVE Made(t, k)'
  <2>1. Made(t, k)
    BY DEF KeysMade
  <2>2. CASE material[t][k] = NoMaterial
    BY <1>2, <2>2 DEF Made, NoMaterial
  <2>3. CASE material[t][k] # NoMaterial
    <3>1. pc[t] \notin Unparsed \cup {"detect"}
      BY <2>1, <2>3 DEF Made
    <3>2. pc'[t] \notin Unparsed \cup {"detect"} /\ url'[t] = url[t]
      BY <3>1, Phases DEF TypeOK, Unparsed, KeyPhase, KeyHooks, SegmentPhase, SegmentHooks
    <3>3. QED
      BY <1>2, <2>1, <2>3, <3>2, SamePlaylist DEF Made
  <2>4. QED
    BY <2>2, <2>3
<1>3. ASSUME NEW k \in 1 .. MaxKeys, KeyHook(t) PROVE Made(t, k)'
  <2>1. PICK by, empty :
          /\ material' = [material EXCEPT ![t][at[t]] = [by |-> by, empty |-> empty]]
          /\ \/ /\ pc[t] = "provider" /\ ~HasExplicitScript(t)
                /\ by = active /\ active \in Provider
             \/ pc[t] = "script" /\ by \in {Target(t), "raw"}
    BY <1>3, HookMakes
  <2>2. CASE k # at[t]
    BY <1>2, <2>1, <2>2 DEF TypeOK
  <2>3. CASE k = at[t]
    <3>1. material'[t][k] = [by |-> by, empty |-> empty]
      BY <2>1, <2>3 DEF TypeOK
    <3>2. pc'[t] = "keys" /\ url' = url /\ k \in Keys(t)
      BY <1>3, <2>3, HookMakes
    <3>3. \/ by \in Provider /\ ExplicitScript(MethodOf(t, k)) = Nobody
          \/ by \in {resolveTarget(MethodOf(t, k)), "raw"}
      BY <2>1, <2>3 DEF HasExplicitScript, Target
    <3>4. QED
      BY <3>1, <3>2, <3>3, SamePlaylist DEF Made, Unparsed
  <2>4. QED
    BY <2>2, <2>3
<1>4. pc'[t] = "provider" => ExplicitScript(MethodOf(t, at[t]))' = Nobody
  <2>1. SUFFICES ASSUME pc'[t] = "provider"
                 PROVE  ExplicitScript(MethodOf(t, at[t]))' = Nobody
    OBVIOUS
  <2>2. ChooseHook(t)
    <3> USE DEF Go, TypeOK, taskVars, sharedVars
    <3>1. ~KeyHook(t) /\ ~SegmentHook(t) /\ ~Parsing(t) /\ ~Resolving(t)
      <4>1. ~KeyHook(t) /\ ~SegmentHook(t)
        BY <2>1 DEF KeyHook, ProviderKey, ScriptKey, KeyMade, SegmentHook, DecryptFull,
                    DecryptSegment, Builtin, Decrypted
      <4>2. ~Parsing(t)
        BY <2>1 DEF Parsing, Fetch, Detect, KeysDone, FetchKey, Segment
      <4>3. ~Resolving(t)
        BY <2>1 DEF Resolving, Miss, Loaded, Load, Found, LoadFails, Unsupported, GivesUp,
                    NotDecrypted
      <4>4. QED
        BY <4>1, <4>2, <4>3
    <3>2. QED
      BY <2>1, <3>1, StepCases DEF Moves, FetchFails, DetectFails, FetchKeyFails,
         ProviderKeyFails, Hit, ScriptKeyFails, Finish, Fails, Found
  <2>3. ~HasExplicitScript(t) /\ UNCHANGED <<url, at>>
    BY <2>1, <2>2 DEF ChooseHook, Go, TypeOK
  <2>4. QED
    BY <2>3, SamePlaylist DEF HasExplicitScript
<1>5. pc'[t] \in SegmentHooks => ~material'[t][at'[t]].empty
  <2>1. SUFFICES ASSUME pc'[t] \in SegmentHooks PROVE ~material'[t][at'[t]].empty
    OBVIOUS
  <2>2. pc[t] \in SegmentPhase /\ ~KeyHook(t)
    BY <2>1, Phases, HookMakes DEF TypeOK, Unparsed, KeyPhase, KeyHooks, SegmentPhase, SegmentHooks
  <2>3. material' = material
    BY <2>2, Phases
  <2>4. CASE \E k \in todo[t] : Segment(t, k)
    BY <2>1, <2>3, <2>4 DEF Segment, SegmentHooks, TypeOK
  <2>5. CASE Hit(t) \/ Miss(t) \/ Loaded(t)
    <3>1. pc[t] \in SegmentHooks /\ at' = at
      BY <2>2, <2>5 DEF Hit, Miss, Loaded, SegmentPhase, SegmentHooks, Looking, Loading
    <3>2. QED
      BY <2>3, <3>1 DEF KeysMade
  <2>6. ~(\/ FetchFails(t) \/ DetectFails(t) \/ FetchKeyFails(t) \/ ChooseHook(t)
          \/ ProviderKeyFails(t) \/ ScriptKeyFails(t) \/ Finish(t))
    BY <2>1 DEF FetchFails, DetectFails, FetchKeyFails, ChooseHook, ProviderKeyFails,
                ScriptKeyFails, Finish, Fails, Go, SegmentHooks, TypeOK
  <2>7. ~SegmentHook(t) /\ ~LoadFails(t) /\ ~Unsupported(t)
    BY <2>1 DEF SegmentHook, DecryptFull, DecryptSegment, Builtin, Decrypted, LoadFails,
                Unsupported, GivesUp, NotDecrypted, Go, SegmentHooks, TypeOK
  <2>8. ~Fetch(t) /\ ~Detect(t) /\ ~KeysDone(t) /\ \A k \in todo[t] : ~FetchKey(t, k)
    BY <2>1 DEF Fetch, Detect, KeysDone, FetchKey, Go, SegmentHooks, TypeOK
  <2>9. QED
    BY <2>2, <2>4, <2>5, <2>6, <2>7, <2>8, StepCases DEF Moves, Parsing, Resolving
<1>6. \A k \in 1 .. MaxKeys : Made(t, k)'
  BY <1>2, <1>3, Phases
<1>7. ASSUME NEW o \in Task, o # t
      PROVE /\ pc'[o] = "provider" => ExplicitScript(MethodOf(o, at[o]))' = Nobody
            /\ pc'[o] \in SegmentHooks => ~material'[o][at'[o]].empty
  <2>1. /\ url'[o] = url[o] /\ at'[o] = at[o] /\ pc'[o] = pc[o] /\ material'[o] = material[o]
    BY <1>7, OthersKeep
  <2>2. ExplicitScript(MethodOf(o, at[o]))' = ExplicitScript(MethodOf(o, at[o]))
    BY <2>1 DEF ExplicitScript, MethodOf
  <2>3. QED
    BY <2>1, <2>2 DEF KeysMade
<1>8. MaxKeys' = MaxKeys
  OBVIOUS
<1>9. QED
  BY <1>1, <1>4, <1>5, <1>6, <1>7 DEF KeysMade

\* Only a hook of a segment brings the name of a script into plain, and that script is
\* the target.
LEMMA StepPlain ==
  ASSUME TypeOK, NEW t \in Task, Step(t), NEW k \in 1 .. MaxKeys, plain'[t][k] \in Script
  PROVE  \/ plain'[t][k] = plain[t][k]
         \/ /\ pc[t] = "full" /\ k = at[t] /\ plain'[t][k] = Target(t)
            /\ url' = url /\ material' = material /\ pc'[t] = "segments"
<1> USE DEF Go, taskVars, sharedVars
<1>0. "builtin" \notin Script /\ "as is" \notin Script /\ "failed" \notin Script
  BY CryptAssumption DEF Outcome
<1>1. CASE plain' = plain
  BY <1>1
<1>2. ASSUME NEW j, NEW by, plain' = [plain EXCEPT ![t][j] = by], by \notin Script
      PROVE  plain'[t][k] = plain[t][k]
  BY <1>2 DEF TypeOK
<1>3. ASSUME NEW by \in {Target(t), "builtin", "failed"}, Decrypted(t, by), pc[t] = "full",
             by = Target(t) \/ by \in {"builtin", "failed"}
      PROVE \/ plain'[t][k] = plain[t][k]
            \/ /\ pc[t] = "full" /\ k = at[t] /\ plain'[t][k] = Target(t)
               /\ url' = url /\ material' = material /\ pc'[t] = "segments"
  <2>1. /\ plain' = [plain EXCEPT ![t][at[t]] = by] /\ pc'[t] = "segments"
        /\ url' = url /\ material' = material
    BY <1>3 DEF Decrypted, TypeOK
  <2>2. CASE by = Target(t)
    BY <1>3, <2>1, <2>2 DEF TypeOK
  <2>3. CASE by \in {"builtin", "failed"}
    BY <1>0, <1>2, <2>1, <2>3
  <2>4. QED
    BY <1>3, <2>2, <2>3
<1>4. CASE SegmentHook(t)
  BY <1>3, <1>4 DEF SegmentHook, DecryptFull, DecryptSegment, Builtin
<1>5. CASE \E j \in todo[t] : FetchKey(t, j) \/ Segment(t, j)
  <2>1. PICK j : plain' = plain \/ plain' = [plain EXCEPT ![t][j] = "as is"]
    BY <1>5 DEF FetchKey, Segment
  <2>2. QED
    BY <1>0, <1>2, <2>1
<1>6. CASE LoadFails(t) \/ Unsupported(t)
  <2>1. plain' = plain \/ plain' = [plain EXCEPT ![t][at[t]] = "failed"]
    BY <1>6 DEF LoadFails, Unsupported, GivesUp, NotDecrypted
  <2>2. QED
    BY <1>0, <1>2, <2>1
<1>7. CASE Moves(t) \/ KeyHook(t) \/ Fetch(t) \/ Detect(t) \/ KeysDone(t) \/ Miss(t) \/ Loaded(t)
  <2>1. plain' = plain
    BY <1>7 DEF Moves, FetchFails, DetectFails, FetchKeyFails, ChooseHook, ProviderKeyFails, Hit,
       ScriptKeyFails, Finish, Fails, KeyHook, ProviderKey, ScriptKey, KeyMade, Fetch, Detect,
       KeysDone, Miss, Loaded
  <2>2. QED
    BY <2>1
<1>8. QED
  BY <1>4, <1>5, <1>6, <1>7, StepCases DEF Parsing, Resolving

\* Each step decrypts a segment by the target of its method.
LEMMA StepPlainByTarget ==
  ASSUME TypeOK, InHand, KeysMade, PlainByTarget, NEW t \in Task, Step(t),
         UNCHANGED <<config, params>>
  PROVE  PlainByTarget'
<1> DEFINE ByTarget(o, k) ==
      /\ k \in Keys(o)' /\ pc'[o] \notin Unparsed \cup KeyPhase \cup {"detect"}
      /\ plain'[o][k] = resolveTarget(MethodOf(o, k))'
      /\ material'[o][k] # NoMaterial
<1>1. ASSUME NEW o \in Task, o # t, NEW k \in 1 .. MaxKeys, plain'[o][k] \in Script
      PROVE  ByTarget(o, k)
  <2>1. url'[o] = url[o] /\ pc'[o] = pc[o] /\ material'[o] = material[o] /\ plain'[o] = plain[o]
    BY <1>1, OthersKeep
  <2>2. /\ k \in Keys(o) /\ pc[o] \notin Unparsed \cup KeyPhase \cup {"detect"}
        /\ plain[o][k] = resolveTarget(MethodOf(o, k)) /\ material[o][k] # NoMaterial
    BY <1>1, <2>1 DEF PlainByTarget
  <2>3. Keys(o)' = Keys(o) /\ resolveTarget(MethodOf(o, k))' = resolveTarget(MethodOf(o, k))
    BY <2>1, SamePlaylist
  <2>4. QED
    BY <2>1, <2>2, <2>3
<1>2. ASSUME NEW k \in 1 .. MaxKeys, plain'[t][k] \in Script PROVE ByTarget(t, k)
  <2>1. CASE plain'[t][k] = plain[t][k]
    <3>1. /\ k \in Keys(t) /\ pc[t] \notin Unparsed \cup KeyPhase \cup {"detect"}
          /\ plain[t][k] = resolveTarget(MethodOf(t, k)) /\ material[t][k] # NoMaterial
      BY <1>2, <2>1 DEF PlainByTarget
    <3>2. pc[t] \in SegmentPhase
      BY <3>1, Phases DEF TypeOK, Unparsed, KeyPhase, KeyHooks, SegmentPhase, SegmentHooks
    <3>3. /\ url' = url
          /\ pc'[t] \notin Unparsed \cup KeyPhase \cup {"detect"}
          /\ pc[t] \notin {"provider", "script"}
      BY <3>2, Phases DEF Unparsed, KeyPhase, KeyHooks, SegmentPhase, SegmentHooks
    <3>4. material' = material
      BY <3>3, Phases, HookMakes
    <3>5. Keys(t)' = Keys(t) /\ resolveTarget(MethodOf(t, k))' = resolveTarget(MethodOf(t, k))
      BY <3>3, SamePlaylist
    <3>6. QED
      BY <2>1, <3>1, <3>3, <3>4, <3>5
  <2>2. CASE /\ pc[t] = "full" /\ k = at[t] /\ plain'[t][k] = Target(t)
             /\ url' = url /\ material' = material /\ pc'[t] = "segments"
    <3>1. k \in Keys(t) /\ Target(t) = resolveTarget(MethodOf(t, k))
      BY <2>2, HandConfigured DEF SegmentHooks, Target
    <3>2. material[t][k] # NoMaterial
      BY <2>2 DEF KeysMade, NoMaterial, SegmentHooks
    <3>3. Keys(t)' = Keys(t) /\ resolveTarget(MethodOf(t, k))' = resolveTarget(MethodOf(t, k))
      BY <2>2, SamePlaylist
    <3>4. QED
      BY <2>2, <3>1, <3>2, <3>3 DEF Unparsed, KeyPhase, KeyHooks
  <2>3. QED
    BY <1>2, <2>1, <2>2, StepPlain
<1>3. NoMaterial' = NoMaterial
  BY DEF NoMaterial
<1>4. QED
  BY <1>1, <1>2, <1>3 DEF PlainByTarget

\* Where the steps arrive: at the keys, from the detection or from a hook; at the hooks
\* of a key, from the keys, those of a script only if it is forced or no provider is
\* active; and behind the keys, once none is left.
LEMMA Arrivals ==
  ASSUME TypeOK, NEW t \in Task, Step(t)
  PROVE  /\ active' = active \/ Detect(t)
         /\ pc'[t] = "keys" => KeyHook(t) \/ Detect(t)
         /\ pc'[t] \in KeyHooks =>
              /\ url' = url /\ material' = material
              /\ \/ pc[t] = "keys" /\ pc'[t] = "key" /\ todo[t] \subseteq todo'[t] \cup {at'[t]}
                 \/ pc[t] \in KeyHooks /\ UNCHANGED <<todo, at>>
              /\ pc'[t] \in {"resolve", "load", "script"} =>
                   \/ pc[t] \in {"resolve", "load", "script"}
                   \/ HasExplicitScript(t) \/ active = Nobody
         /\ Parsed(t)' =>
              /\ url' = url /\ material' = material
              /\ Parsed(t) \/ (pc[t] = "keys" /\ todo[t] = {})
<1> USE DEF Go, taskVars, sharedVars, KeyHooks, Parsed
<1>0. DOMAIN pc = Task /\ DOMAIN todo = Task /\ DOMAIN at = Task
  BY DEF TypeOK
<1>1. CASE FetchFails(t) \/ DetectFails(t) \/ FetchKeyFails(t) \/ ProviderKeyFails(t)
           \/ ScriptKeyFails(t)
  BY <1>0, <1>1 DEF FetchFails, DetectFails, FetchKeyFails, ProviderKeyFails, ScriptKeyFails, Fails
<1>2. CASE ChooseHook(t)
  BY <1>0, <1>2 DEF ChooseHook
<1>3. CASE Hit(t) \/ Finish(t)
  <2>1. /\ UNCHANGED <<active, url, todo, at, material>>
        /\ \/ pc[t] = "resolve" /\ pc'[t] = "script"
           \/ pc[t] = "segment" /\ pc'[t] = "full"
           \/ pc[t] = "segments" /\ pc'[t] = "done"
    BY <1>0, <1>3 DEF Hit, Finish, Found, Looking
  <2>2. QED
    BY <2>1
<1>4. CASE KeyHook(t)
  <2>1. pc'[t] = "keys" /\ active' = active
    BY <1>0, <1>4 DEF KeyHook, ProviderKey, ScriptKey, KeyMade
  <2>2. QED
    BY <1>4, <2>1
<1>5. CASE SegmentHook(t)
  <2>1. UNCHANGED <<active, url, material>> /\ pc[t] = "full" /\ pc'[t] = "segments"
    BY <1>0, <1>5 DEF SegmentHook, DecryptFull, DecryptSegment, Builtin, Decrypted
  <2>2. QED
    BY <2>1
<1>6. CASE Fetch(t)
  BY <1>0, <1>6 DEF Fetch
<1>7. CASE Detect(t)
  <2>1. pc'[t] = "keys"
    BY <1>0, <1>7 DEF Detect
  <2>2. QED
    BY <1>7, <2>1
<1>8. CASE KeysDone(t)
  BY <1>0, <1>8 DEF KeysDone
<1>9. CASE \E k \in todo[t] : FetchKey(t, k) \/ Segment(t, k)
  <2>1. PICK k \in todo[t] : FetchKey(t, k) \/ Segment(t, k)
    BY <1>9
  <2>2. CASE FetchKey(t, k)
    <3>1. /\ pc[t] = "keys" /\ pc'[t] = "key" /\ todo'[t] = todo[t] \ {k} /\ at'[t] = k
          /\ UNCHANGED <<active, url, material>>
      BY <1>0, <2>2 DEF FetchKey
    <3>2. QED
      BY <3>1
  <2>3. CASE Segment(t, k)
    <3>1. /\ UNCHANGED <<active, url, material>>
          /\ pc[t] = "segments" /\ pc'[t] \in {"segments", "segment"}
      BY <1>0, <2>3 DEF Segment
    <3>2. QED
      BY <3>1
  <2>4. QED
    BY <2>1, <2>2, <2>3
<1>10. CASE Miss(t) \/ Loaded(t)
  <2>1. /\ UNCHANGED <<active, url, todo, at, material>>
        /\ \/ pc[t] \in {"resolve", "load"} /\ pc'[t] \in {"load", "script"}
           \/ pc[t] \in {"segment", "loadSegment"} /\ pc'[t] \in {"loadSegment", "full"}
    BY <1>0, <1>10 DEF Miss, Loaded, Load, Found, Looking, Loading
  <2>2. QED
    BY <2>1
<1>11. CASE LoadFails(t) \/ Unsupported(t)
  <2>1. /\ UNCHANGED <<active, url, todo, at, material>>
        /\ \/ pc'[t] = "failed"
           \/ pc[t] \in {"segment", "loadSegment"} /\ pc'[t] = "segments"
    BY <1>0, <1>11 DEF LoadFails, Unsupported, GivesUp, NotDecrypted, Looking, Loading
  <2>2. QED
    BY <2>1
<1>12. QED
  BY <1>1, <1>2, <1>3, <1>4, <1>5, <1>6, <1>7, <1>8, <1>9, <1>10, <1>11, StepCases
     DEF Moves, Parsing, Resolving

\* Two tasks with a provider at once are a server's, which has Aliyun's at most.
LEMMA StepOneProvider ==
  ASSUME TypeOK, OneProvider, NEW t \in Task, Step(t), UNCHANGED <<config, params>>
  PROVE  OneProvider'
<1>1. CASE \E l \in Task : \A o \in Task \ {l} : pc[o] = "absent"
  <2>1. PICK l \in Task : \A o \in Task \ {l} : pc[o] = "absent"
    BY <1>1
  <2>2. pc[t] # "absent"
    BY Phases
  <2>3. \A o \in Task \ {l} : pc'[o] = "absent"
    BY <2>1, <2>2, OthersKeep
  <2>4. QED
    BY <2>3 DEF OneProvider
<1>2. CASE ~params /\ active # Tencent
  <2>1. CASE Detect(t)
    BY <1>2, <2>1 DEF Detect, ValidateParams, OneProvider
  <2>2. CASE ~Detect(t)
    <3>1. active' = active
      BY <2>2, Arrivals
    <3>2. QED
      BY <1>2, <3>1 DEF OneProvider
  <2>3. QED
    BY <2>1, <2>2
<1>3. QED
  BY <1>1, <1>2 DEF OneProvider

\* While a task makes its keys, no step activates another provider than its own.
LEMMA StepProviderHolds ==
  ASSUME TypeOK, InHand, OneProvider, ProviderHolds, NEW t \in Task, Step(t),
         UNCHANGED <<config, params>>
  PROVE  ProviderHolds'
<1>1. ASSUME NEW o \in Task, o # t, pc'[o] \in KeyPhase, Signed(o)'
      PROVE  /\ active' = Web[url'[o]].signature
             /\ pc'[o] \in {"resolve", "load", "script"} => HasExplicitScript(o)'
  <2>1. url'[o] = url[o] /\ pc'[o] = pc[o] /\ at'[o] = at[o]
    BY <1>1, OthersKeep
  <2>2. Signed(o)
    BY <1>1, <2>1, SamePlaylist
  <2>3. /\ active = Web[url[o]].signature /\ Web[url[o]].signature # Nobody
        /\ pc[o] \in {"resolve", "load", "script"} => HasExplicitScript(o)
    BY <1>1, <2>1, <2>2 DEF ProviderHolds, Signed
  <2>4. HasExplicitScript(o)' = HasExplicitScript(o)
    BY <2>1 DEF HasExplicitScript, ExplicitScript, MethodOf
  <2>5. active' = active
    <3>1. CASE Detect(t)
      <4>1. pc[t] # "absent" /\ pc[o] # "absent"
        BY <1>1, <2>1, Phases DEF KeyPhase, KeyHooks
      <4>2. ~params /\ active # Tencent
        BY <1>1, <4>1 DEF OneProvider
      <4>3. active = Aliyun
        BY <2>3, <4>2 DEF TypeOK, Provider
      <4>4. Document(url[t]) /\ url[t] \in Url
        BY <3>1 DEF Detect, InHand, Unparsed, TypeOK
      <4>5. DetectFromKeyURI(t) \in Provider \cup {Nobody} /\ DetectFromKeyURI(t) # Tencent
        BY <3>1, <4>2, <4>4, Documents DEF Detect, ValidateParams, DetectFromKeyURI
      <4>6. QED
        BY <3>1, <4>3, <4>5 DEF Detect, Provider
    <3>2. CASE ~Detect(t)
      BY <3>2, Arrivals
    <3>3. QED
      BY <3>1, <3>2
  <2>6. QED
    BY <2>1, <2>3, <2>4, <2>5
<1>2. ASSUME pc'[t] \in KeyPhase, Signed(t)'
      PROVE  /\ active' = Web[url'[t]].signature
             /\ pc'[t] \in {"resolve", "load", "script"} => HasExplicitScript(t)'
  <2>1. CASE Detect(t)
    <3>1. url' = url /\ pc'[t] = "keys"
      BY <2>1 DEF Detect, Go, TypeOK
    <3>2. Signed(t)
      BY <1>2, <3>1, SamePlaylist
    <3>3. active' = Web[url[t]].signature
      BY <2>1, <3>2 DEF Detect, DetectFromKeyURI, Signed
    <3>4. QED
      BY <3>1, <3>3
  <2>2. CASE ~Detect(t)
    <3>0. KeyHook(t) => pc[t] \in {"provider", "script"}
      BY DEF KeyHook, ProviderKey, ScriptKey
    <3>1. active' = active /\ pc[t] \in KeyPhase /\ url' = url
      BY <1>2, <2>2, <3>0, Arrivals, Phases
         DEF TypeOK, Unparsed, KeyPhase, KeyHooks, SegmentPhase, SegmentHooks
    <3>2. Signed(t)
      BY <1>2, <3>1, SamePlaylist
    <3>3. /\ active = Web[url[t]].signature /\ active # Nobody
          /\ pc[t] \in {"resolve", "load", "script"} => HasExplicitScript(t)
      BY <3>1, <3>2 DEF ProviderHolds, Signed
    <3>4. ASSUME pc'[t] \in {"resolve", "load", "script"} PROVE HasExplicitScript(t)'
      <4>1. at' = at /\ HasExplicitScript(t)
        BY <3>1, <3>3, <3>4, Arrivals DEF KeyHooks
      <4>2. QED
        BY <3>1, <4>1 DEF HasExplicitScript, ExplicitScript, MethodOf
    <3>5. QED
      BY <3>1, <3>3, <3>4
  <2>3. QED
    BY <2>1, <2>2
<1>3. QED
  BY <1>1, <1>2 DEF ProviderHolds

\* Each step leaves behind a task only keys made by the provider of its playlist.
LEMMA StepCloudKeys ==
  ASSUME TypeOK, InHand, KeysMade, ProviderHolds, CloudKeysSoFar, NEW t \in Task, Step(t),
         UNCHANGED <<config, params>>
  PROVE  CloudKeysSoFar'
<1>1. ASSUME NEW o \in Task, o # t, Document(url'[o]), Signed(o)'
      PROVE  /\ Parsed(o)' => \A k \in Encrypted(o)' : MadeAsSigned(o, k)'
             /\ pc'[o] = "keys" => \A k \in Encrypted(o)' \ todo'[o] : MadeAsSigned(o, k)'
             /\ pc'[o] \in KeyHooks =>
                  \A k \in Encrypted(o)' \ (todo'[o] \cup {at'[o]}) : MadeAsSigned(o, k)'
  <2>1. /\ url'[o] = url[o] /\ pc'[o] = pc[o] /\ at'[o] = at[o] /\ todo'[o] = todo[o]
        /\ material'[o] = material[o]
    BY <1>1, OthersKeep
  <2>2. Encrypted(o)' = Encrypted(o) /\ Signed(o) /\ Document(url[o])
    BY <1>1, <2>1, SamePlaylist
  <2>3. \A k : MadeAsSigned(o, k)' <=> MadeAsSigned(o, k)
    BY <2>1, SamePlaylist DEF MadeAsSigned
  <2>4. Parsed(o)' <=> Parsed(o)
    BY <2>1 DEF Parsed
  <2>5. /\ Parsed(o) => \A k \in Encrypted(o) : MadeAsSigned(o, k)
        /\ pc[o] = "keys" => \A k \in Encrypted(o) \ todo[o] : MadeAsSigned(o, k)
        /\ pc[o] \in KeyHooks => \A k \in Encrypted(o) \ (todo[o] \cup {at[o]}) : MadeAsSigned(o, k)
    BY <2>2 DEF CloudKeysSoFar
  <2>6. QED
    BY <2>1, <2>2, <2>3, <2>4, <2>5
<1>2. ASSUME Document(url'[t]), Signed(t)', url' = url
      PROVE  /\ Encrypted(t)' = Encrypted(t)
             /\ Parsed(t) => \A k \in Encrypted(t) : MadeAsSigned(t, k)
             /\ pc[t] = "keys" => \A k \in Encrypted(t) \ todo[t] : MadeAsSigned(t, k)
             /\ pc[t] \in KeyHooks =>
                  \A k \in Encrypted(t) \ (todo[t] \cup {at[t]}) : MadeAsSigned(t, k)
             /\ \A k : material'[t][k] = material[t][k] /\ MadeAsSigned(t, k) => MadeAsSigned(t, k)'
  <2>1. Encrypted(t)' = Encrypted(t) /\ Signed(t) /\ Document(url[t])
    BY <1>2, SamePlaylist
  <2>2. \A k : material'[t][k] = material[t][k] /\ MadeAsSigned(t, k) => MadeAsSigned(t, k)'
    BY <1>2, SamePlaylist DEF MadeAsSigned
  <2>3. QED
    BY <2>1, <2>2 DEF CloudKeysSoFar
<1>3. ASSUME Document(url'[t]), Signed(t)', Parsed(t)'
      PROVE  \A k \in Encrypted(t)' : MadeAsSigned(t, k)'
  <2>1. /\ url' = url /\ material' = material
        /\ Parsed(t) \/ (pc[t] = "keys" /\ todo[t] = {})
    BY <1>3, Arrivals
  <2>2. QED
    BY <1>2, <1>3, <2>1
<1>4. ASSUME Document(url'[t]), Signed(t)', pc'[t] = "keys"
      PROVE  \A k \in Encrypted(t)' \ todo'[t] : MadeAsSigned(t, k)'
  <2>1. CASE KeyHook(t)
    <3>1. PICK by, empty :
            /\ material' = [material EXCEPT ![t][at[t]] = [by |-> by, empty |-> empty]]
            /\ \/ /\ pc[t] = "provider" /\ ~HasExplicitScript(t)
                  /\ by = active /\ active \in Provider
               \/ pc[t] = "script" /\ by \in {Target(t), "raw"}
      BY <2>1, HookMakes
    <3>2. url' = url /\ todo' = todo /\ pc[t] \in {"provider", "script"} /\ at[t] \in 1 .. MaxKeys
      BY <2>1, HookMakes, HandConfigured DEF KeyHooks
    <3>3. material'[t][at[t]].by = by /\ \A k : k # at[t] => material'[t][k] = material[t][k]
      <4>1. material'[t] = [material[t] EXCEPT ![at[t]] = [by |-> by, empty |-> empty]]
        BY <3>1 DEF TypeOK
      <4>2. DOMAIN material[t] = 1 .. MaxKeys
        BY DEF TypeOK
      <4>3. material'[t][at[t]] = [by |-> by, empty |-> empty]
        BY <3>2, <4>1, <4>2
      <4>4. \A k : k # at[t] => material'[t][k] = material[t][k]
        BY <4>1
      <4>5. QED
        BY <4>3, <4>4
    <3>4. \A k \in Encrypted(t) \ (todo[t] \cup {at[t]}) : MadeAsSigned(t, k)'
      BY <1>2, <1>4, <3>2, <3>3 DEF KeyHooks
    <3>5. ASSUME NEW k, k = at[t] PROVE MadeAsSigned(t, k)'
      <4>1. Signed(t)
        BY <1>4, <3>2, SamePlaylist
      <4>2. /\ active = Web[url[t]].signature
            /\ pc[t] = "script" => HasExplicitScript(t)
        BY <3>2, <4>1 DEF ProviderHolds, KeyPhase, KeyHooks
      <4>3. HasExplicitScript(t) => Target(t) = ExplicitScript(MethodOf(t, k))
        BY <3>2, <3>5, HandConfigured DEF KeyHooks
      <4>4. ExplicitScript(MethodOf(t, k)) = Nobody => by = Web[url[t]].signature
        BY <3>1, <3>5, <4>2, <4>3 DEF HasExplicitScript
      <4>5. ExplicitScript(MethodOf(t, k))' = ExplicitScript(MethodOf(t, k))
        BY <3>2, SamePlaylist
      <4>6. QED
        BY <3>2, <3>3, <3>5, <4>4, <4>5 DEF MadeAsSigned
    <3>6. QED
      BY <1>2, <1>4, <3>2, <3>4, <3>5
  <2>2. CASE ~KeyHook(t)
    <3>1. Detect(t) /\ todo'[t] = Encrypted(t) /\ url' = url
      BY <1>4, <2>2, Arrivals DEF Detect, TypeOK
    <3>2. QED
      BY <1>2, <1>4, <3>1
  <2>3. QED
    BY <2>1, <2>2
<1>5. ASSUME Document(url'[t]), Signed(t)', pc'[t] \in KeyHooks
      PROVE  \A k \in Encrypted(t)' \ (todo'[t] \cup {at'[t]}) : MadeAsSigned(t, k)'
  <2>1. /\ url' = url /\ material' = material
        /\ \/ pc[t] = "keys" /\ todo[t] \subseteq todo'[t] \cup {at'[t]}
           \/ pc[t] \in KeyHooks /\ UNCHANGED <<todo, at>>
    BY <1>5, Arrivals
  <2>2. QED
    BY <1>2, <1>5, <2>1
<1>6. QED
  BY <1>1, <1>3, <1>4, <1>5 DEF CloudKeysSoFar

-----------------------------------------------------------------------------
(* The theorems about keys and segments.                                    *)

KeysInv == /\ TypeOK /\ InHand /\ LoadsAlone /\ InstancesCounted
           /\ KeysMade /\ PlainByTarget
           /\ OneProvider /\ ProviderHolds /\ CloudKeysSoFar

\* At the beginning there is no key.
LEMMA InitKeys == ASSUME Init PROVE KeysInv
<1>1. TypeOK /\ InHand /\ LoadsAlone /\ InstancesCounted
  BY InitHolds
<1>2. \A t \in Task : pc[t] \in {"idle", "absent"}
  BY DEF Init
<1>3. \A t \in Task, k \in 1 .. MaxKeys : material[t][k] = NoMaterial /\ plain[t][k] \notin Script
  BY CryptAssumption DEF Init
<1>4. KeysMade /\ PlainByTarget
  BY <1>2, <1>3 DEF KeysMade, PlainByTarget, Made, SegmentHooks
<1>5. OneProvider
  <2>1. CASE CommandLine
    BY <2>1 DEF CommandLine, OneProvider
  <2>2. CASE Server
    BY <2>2, CryptAssumption DEF Server, OneProvider, Provider
  <2>3. QED
    BY <2>1, <2>2 DEF Init
<1>6. ProviderHolds /\ CloudKeysSoFar
  BY <1>2 DEF ProviderHolds, CloudKeysSoFar, Parsed, KeyPhase, KeyHooks
<1>7. QED
  BY <1>1, <1>4, <1>5, <1>6 DEF KeysInv

\* What the registry and its scripts are does not matter for keys that are made.
LEMMA KeysUntouched ==
  ASSUME KeysMade, PlainByTarget, OneProvider, ProviderHolds, CloudKeysSoFar,
         UNCHANGED <<config, params, active, pc, url, todo, at, material, plain>>
  PROVE  KeysMade' /\ PlainByTarget' /\ OneProvider' /\ ProviderHolds' /\ CloudKeysSoFar'
<1>1. \A t \in Task : /\ Keys(t)' = Keys(t) /\ Encrypted(t)' = Encrypted(t)
                      /\ (Signed(t))' = Signed(t)
  BY DEF Keys, Encrypted, Signed, MethodOf
<1>2. KeysMade'
  <2>1. \A t \in Task : \A k : Made(t, k)' <=> Made(t, k)
    <3>1. \A t \in Task : \A k : /\ (ExplicitScript(MethodOf(t, k)))' = ExplicitScript(MethodOf(t, k))
                                 /\ (resolveTarget(MethodOf(t, k)))' = resolveTarget(MethodOf(t, k))
      BY DEF ExplicitScript, resolveTarget, MethodOf
    <3>2. QED
      BY <1>1, <3>1 DEF Made, NoMaterial
  <2>2. \A t \in Task : ExplicitScript(MethodOf(t, at[t]))' = ExplicitScript(MethodOf(t, at[t]))
    BY DEF ExplicitScript, MethodOf
  <2>3. QED
    BY <2>1, <2>2 DEF KeysMade
<1>3. PlainByTarget'
  BY DEF PlainByTarget, NoMaterial, Keys, MethodOf, ExplicitScript, resolveTarget
<1>4. OneProvider'
  BY DEF OneProvider
<1>5. ProviderHolds'
  BY <1>1 DEF ProviderHolds, HasExplicitScript, ExplicitScript, MethodOf
<1>6. CloudKeysSoFar'
  <2>1. \A t \in Task : \A k : MadeAsSigned(t, k)' <=> MadeAsSigned(t, k)
    BY DEF MadeAsSigned, ExplicitScript, MethodOf
  <2>2. \A t \in Task : Parsed(t)' <=> Parsed(t)
    BY DEF Parsed
  <2>3. QED
    BY <1>1, <2>1, <2>2 DEF CloudKeysSoFar
<1>7. QED
  BY <1>2, <1>3, <1>4, <1>5, <1>6

\* The inductive invariant of the keys, with what it rests on.
THEOREM KeysInvCorrect == Spec => []KeysInv
<1>1. ASSUME KeysInv, [Next]_vars PROVE KeysInv'
  <2> USE <1>1 DEF KeysInv
  <2>1. CASE UNCHANGED vars
    <3>1. UNCHANGED <<config, params, active, pc, url, todo, at, material, plain>>
      BY <2>1 DEF vars, sharedVars, afterClose, taskVars
    <3>2. TypeOK' /\ InHand' /\ LoadsAlone' /\ InstancesCounted'
      BY <2>1 DEF vars, sharedVars, afterClose, taskVars, TypeOK, InHand, LoadsAlone, InstancesCounted,
                  Encrypted, Keys, MethodOf, Target, resolveTarget, ExplicitScript
    <3>3. QED
      BY <3>1, <3>2, KeysUntouched
  <2>2. ASSUME NEW t \in Task, Step(t), UNCHANGED <<config, params>> PROVE KeysInv'
    <3>1. TypeOK' /\ InHand' /\ LoadsAlone' /\ InstancesCounted'
      BY <2>2, StepTypes, StepInHand, StepRegistryHolds
    <3>2. KeysMade' /\ PlainByTarget'
      BY <2>2, StepKeysMade, StepPlainByTarget
    <3>3. OneProvider' /\ ProviderHolds' /\ CloudKeysSoFar'
      BY <2>2, StepOneProvider, StepProviderHolds, StepCloudKeys
    <3>4. QED
      BY <3>1, <3>2, <3>3
  <2>3. CASE Close /\ UNCHANGED <<config, params>>
    <3>1. UNCHANGED <<config, params, active, pc, url, todo, at, material, plain>>
      BY <2>3 DEF Close, taskVars
    <3>2. QED
      BY <2>3, <3>1, CloseHolds, KeysUntouched
  <2>4. QED
    BY <2>1, <2>2, <2>3 DEF Next
<1>2. QED
  BY <1>1, InitKeys, PTL DEF Spec

\* The keys of a playlist with a provider's signature come from that provider, unless
\* the command line or a rule names a script for them, whatever other tasks activate
\* meanwhile: either there is one task, or the only provider that any can activate is
\* Aliyun's.
THEOREM CloudKeysByProviderCorrect == Spec => []CloudKeysByProvider
<1>1. KeysInv => CloudKeysByProvider
  <2>1. SUFFICES ASSUME KeysInv, NEW t \in Task, Parsed(t), Web[url[t]].signature # Nobody,
                        NEW k \in Encrypted(t)
                 PROVE  MadeAsSigned(t, k)
    BY DEF CloudKeysByProvider, MadeAsSigned
  <2>2. Document(url[t]) /\ Signed(t)
    BY <2>1 DEF KeysInv, InHand, Parsed, Signed, Unparsed
  <2>3. QED
    BY <2>1, <2>2 DEF KeysInv, CloudKeysSoFar
<1>2. QED
  BY <1>1, KeysInvCorrect, PTL
=============================================================================
