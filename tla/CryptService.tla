---------------------------- MODULE CryptService ----------------------------
(***************************************************************************)
(* From a link to decrypted segments: FromURL (parse/parser.go), the        *)
(* decryption service that all tasks of a server share (crypt/service.go),  *)
(* its registry of scripts (crypt/registry.go), the hooks of a script       *)
(* (crypt/starlark.go, crypt/external.go), the built-in decryptor and the   *)
(* cloud providers.                                                        *)
(*                                                                         *)
(* A task stands for a call of FromURL followed by one segment per key of   *)
(* the playlist.  Its steps are what it does between two looks at the       *)
(* shared provider or registry.  What a document says is what Playlist      *)
(* makes of it, here a choice of the keys; whether a key, a segment or a    *)
(* script is any good is a choice too.                                     *)
(***************************************************************************)
EXTENDS Integers, Sequences, FiniteSets

CONSTANTS Task,
          Url,            \* links to playlists
          Web,            \* the document behind each of them
          Script,         \* script files
          External,       \* those that run as a process
          Config,         \* configurations of the service
          MaxKeys,        \* no playlist has more keys
          Nobody          \* no task, no script, no provider

Tencent == "tencent-simpleaes"
Aliyun  == "aliyun-hls-standard"
Provider == {Tencent, Aliyun}
Method == {"AES-128", "SAMPLE-AES", "NONE"}
Hook == {"key", "segment", "full"}
Outcome == {"builtin", "raw", "as is", "failed"}   \* of a key or segment, beside scripts

\* A master playlist names its first variant, a media playlist has the signature
\* of a provider in its key URIs, or none, and the METHOD of each key.
Master == [kind : {"master"}, first : Url]
Media  == [kind : {"media"}, signature : Provider \cup {Nobody}, keys : Seq(Method)]
Bad    == [kind : {"malformed", "empty"}]

\* The script that is forced by the command line, and those that rules of
\* decrypt.yaml and files in scripts_dir assign; the hooks each one implements.
ConfigType == [cli : Script \cup {Nobody},
               rule : [Method -> Script \cup {Nobody}],
               auto : [Method -> Script \cup {Nobody}],
               hooks : [Script -> SUBSET Hook]]

\* No master playlist leads back to itself: FromURL would not end.
ASSUME CryptAssumption ==
  /\ IsFiniteSet(Task) /\ IsFiniteSet(Url)
  /\ Nobody \notin Task \cup Script \cup Provider \cup Outcome
  /\ Script \cap (Provider \cup Outcome) = {} /\ External \subseteq Script
  /\ Config \subseteq ConfigType
  /\ \A u \in Url : Web[u] \in Master \cup Media \cup Bad
  /\ MaxKeys \in Nat
  /\ \A u \in Url : Web[u].kind = "media" => Len(Web[u].keys) <= MaxKeys
  /\ \E depth \in [Url -> 0 .. Cardinality(Url)] :
       \A u \in Url : Web[u].kind = "master" => depth[Web[u].first] < depth[u]

VARIABLES
  config,    \* set up by BuildService, never changed
  params,    \* whether the parameters of Tencent's provider were given
  active,    \* prov.ActiveID, shared and unlocked
  mu,        \* who holds the registry's mu across steps, or Nobody
  cache,     \* the scripts in the registry's cache
  loaded,    \* how many instances of each script were made and not closed
  closed,    \* Registry.Close was called
  stale,     \* the tasks whose decryptor Close has closed under them
  revived,   \* the closed scripts whose process a call has started again
  overtaken, \* history: the tasks that had not ended when Close was called
  pc, url, todo, at,   \* of each task: its place, its link, the keys left, the key in work
  material,  \* of each task: who made the material of each key, and is it empty
  plain      \* of each task: who decrypted the segment of each key

sharedVars == <<active, mu, cache, loaded, closed>>
afterClose == <<stale, revived, overtaken>>
taskVars   == <<pc, url, todo, at, material, plain>>
vars       == <<config, params, sharedVars, afterClose, taskVars>>

NoMaterial == [by |-> Nobody, empty |-> TRUE]

Keys(t) == DOMAIN Web[url[t]].keys
MethodOf(t, k) == Web[url[t]].keys[k]
Encrypted(t) == {k \in Keys(t) : MethodOf(t, k) # "NONE"}

\* The command line has one task, whose service was set up for its link; the
\* server has one service for all, without a script or parameters of its own
\* and without a provider.
CommandLine ==
  /\ active \in Provider \cup {Nobody}
  /\ active = Tencent => params
  /\ \E t \in Task :
       /\ pc = [o \in Task |-> IF o = t THEN "idle" ELSE "absent"]
       /\ \A o \in Task : url[o] = url[t]
Server ==
  /\ active = Nobody /\ ~params /\ config.cli = Nobody
  /\ pc = [t \in Task |-> "idle"]

Init ==
  /\ config \in Config /\ params \in BOOLEAN /\ active \in Provider \cup {Nobody}
  /\ mu = Nobody /\ cache = {} /\ loaded = [s \in Script |-> 0] /\ closed = FALSE
  /\ stale = {} /\ revived = {} /\ overtaken = {}
  /\ url \in [Task -> Url]
  /\ pc \in [Task -> {"idle", "absent"}]
  /\ CommandLine \/ Server
  /\ todo = [t \in Task |-> {}] /\ at = [t \in Task |-> 0]
  /\ material = [t \in Task |-> [k \in 1 .. MaxKeys |-> NoMaterial]]
  /\ plain = [t \in Task |-> [k \in 1 .. MaxKeys |-> Nobody]]

-----------------------------------------------------------------------------

Go(t, place) == pc' = [pc EXCEPT ![t] = place]
Fails(t) == Go(t, "failed") /\ UNCHANGED <<sharedVars, url, todo, at, material, plain>>

(* FromURL.                                                                *)

\* A master playlist is left for its first variant, whatever else is in it.
Fetch(t) ==
  /\ pc[t] \in {"idle", "fetch"}
  /\ CASE Web[url[t]].kind = "master" ->
            Go(t, "fetch") /\ url' = [url EXCEPT ![t] = Web[url[t]].first]
       [] Web[url[t]].kind = "media" -> Go(t, "detect") /\ UNCHANGED url
       [] OTHER -> Go(t, "failed") /\ UNCHANGED url
  /\ UNCHANGED <<sharedVars, todo, at, material, plain>>

FetchFails(t) == pc[t] \in {"idle", "fetch"} /\ Fails(t)

DetectFromKeyURI(t) ==
  IF Encrypted(t) # {} THEN Web[url[t]].signature ELSE Nobody

ValidateParams(id) == id = Tencent => params

Detect_Always(t) ==
  /\ pc[t] = "detect" /\ ValidateParams(DetectFromKeyURI(t))
  /\ active' = DetectFromKeyURI(t)
  /\ Go(t, "keys")
  /\ todo' = [todo EXCEPT ![t] = Encrypted(t)]
  /\ UNCHANGED <<mu, cache, loaded, closed, url, at, material, plain>>

\* The provider of the key URIs is activated; without one the active provider
\* stays, whoever has activated it.
Detect(t) ==
  /\ pc[t] = "detect" /\ ValidateParams(DetectFromKeyURI(t))
  /\ active' = IF DetectFromKeyURI(t) # Nobody THEN DetectFromKeyURI(t) ELSE active
  /\ Go(t, "keys")
  /\ todo' = [todo EXCEPT ![t] = Encrypted(t)]
  /\ UNCHANGED <<mu, cache, loaded, closed, url, at, material, plain>>

DetectFails(t) ==
  pc[t] = "detect" /\ ~ValidateParams(DetectFromKeyURI(t)) /\ Fails(t)

\* The keys come in the order of a Go map.
FetchKey(t, k) ==
  /\ pc[t] = "keys" /\ k \in todo[t]
  /\ at' = [at EXCEPT ![t] = k]
  /\ todo' = [todo EXCEPT ![t] = @ \ {k}]
  /\ Go(t, "key")
  /\ UNCHANGED <<sharedVars, url, material, plain>>

FetchKeyFails(t) == pc[t] = "keys" /\ todo[t] # {} /\ Fails(t)

KeysDone(t) ==
  /\ pc[t] = "keys" /\ todo[t] = {}
  /\ Go(t, "segments")
  /\ todo' = [todo EXCEPT ![t] = Keys(t)]
  /\ UNCHANGED <<sharedVars, url, at, material, plain>>

-----------------------------------------------------------------------------
(* Service.ProcessKey.                                                     *)

ExplicitScript(m) == IF config.cli # Nobody THEN config.cli ELSE config.rule[m]

\* resolveTarget: the command line, a rule, a file found by its name, and for
\* methods that are known the built-in decryptor.
resolveTarget(m) ==
  CASE ExplicitScript(m) # Nobody -> ExplicitScript(m)
    [] ExplicitScript(m) = Nobody /\ config.auto[m] # Nobody -> config.auto[m]
    [] OTHER -> IF m = "SAMPLE-AES" THEN Nobody ELSE "builtin"

HasExplicitScript(t) == ExplicitScript(MethodOf(t, at[t])) # Nobody

ChooseHook(t) ==
  /\ pc[t] = "key"
  /\ Go(t, IF ~HasExplicitScript(t) /\ active # Nobody THEN "provider" ELSE "resolve")
  /\ UNCHANGED <<sharedVars, url, todo, at, material, plain>>

KeyMade(t, by, empty) ==
  /\ material' = [material EXCEPT ![t][at[t]] = [by |-> by, empty |-> empty]]
  /\ Go(t, "keys")
  /\ UNCHANGED <<sharedVars, url, todo, at, plain>>

\* NewDecryptor looks at the active provider once more.  Aliyun's takes a key of
\* 16 bytes only, Tencent's whole blocks, be there none.
ProviderKey(t) ==
  /\ pc[t] = "provider" /\ active # Nobody
  /\ \E empty \in IF active = Tencent THEN BOOLEAN ELSE {FALSE} : KeyMade(t, active, empty)

ProviderKeyFails(t) == pc[t] = "provider" /\ Fails(t)

-----------------------------------------------------------------------------
(* Registry.Resolve, for a key or for a segment.                            *)

Target(t) == resolveTarget(MethodOf(t, at[t]))

\* Where a task is when it looks for a decryptor, and where it goes with it.
Looking == {"resolve", "segment"}
Found(t) == Go(t, IF pc[t] \in {"resolve", "load"} THEN "script" ELSE "full")

Hit(t) ==
  /\ pc[t] \in Looking /\ mu = Nobody
  /\ Target(t) = "builtin" \/ Target(t) \in cache
  /\ Found(t)
  /\ UNCHANGED <<sharedVars, url, todo, at, material, plain>>

Load(t) == Go(t, IF pc[t] = "resolve" THEN "load" ELSE "loadSegment")

Miss_Unlocked(t) ==
  /\ pc[t] \in Looking /\ Target(t) \in Script \ cache
  /\ Load(t)
  /\ UNCHANGED <<sharedVars, url, todo, at, material, plain>>

Miss_AnyTarget(t) ==
  /\ pc[t] \in Looking /\ mu = Nobody /\ Target(t) \notin cache \cup {"builtin"}
  /\ mu' = t /\ Load(t)
  /\ UNCHANGED <<active, cache, loaded, closed, url, todo, at, material, plain>>

\* The script is read, or its process started, with mu held.
Miss(t) ==
  /\ pc[t] \in Looking /\ mu = Nobody /\ Target(t) \in Script \ cache
  /\ mu' = t /\ Load(t)
  /\ UNCHANGED <<active, cache, loaded, closed, url, todo, at, material, plain>>

Loading == {"load", "loadSegment"}

Loaded(t) ==
  /\ pc[t] \in Loading
  /\ cache' = cache \cup {Target(t)}
  /\ loaded' = [loaded EXCEPT ![Target(t)] = @ + 1]
  /\ mu' = Nobody
  /\ Found(t)
  /\ UNCHANGED <<active, closed, url, todo, at, material, plain>>

NotDecrypted(t) ==
  /\ plain' = [plain EXCEPT ![t][at[t]] = "failed"]
  /\ Go(t, "segments")
  /\ UNCHANGED <<active, cache, loaded, closed, url, todo, at, material>>

GivesUp(t) ==
  IF pc[t] \in {"resolve", "load"}
  THEN Go(t, "failed") /\ UNCHANGED <<active, cache, loaded, closed, url, todo, at, material, plain>>
  ELSE NotDecrypted(t)

LoadFails_KeepsLock(t) == pc[t] \in Loading /\ GivesUp(t) /\ UNCHANGED mu

\* The file is not where a script may be, does not parse, or does not start.
LoadFails(t) == pc[t] \in Loading /\ GivesUp(t) /\ mu' = Nobody

Unsupported(t) ==
  pc[t] \in Looking /\ Target(t) = Nobody /\ GivesUp(t) /\ UNCHANGED mu

-----------------------------------------------------------------------------
(* The hooks of the decryptor that a task has been given.                   *)

\* It is a process, and Close has stopped it.
Stopped(t) == t \in stale /\ Target(t) \in External \ revived

\* A call on a stopped process fails and starts it again, if it can be started;
\* a call whose restart after a timeout comes after Close may yet be answered.
Call(t, answered) ==
  /\ stale' = stale \ {t}
  /\ \/ revived' = IF Stopped(t) THEN revived \cup {Target(t)} ELSE revived
     \/ ~answered /\ revived' = revived
  /\ UNCHANGED overtaken

\* ProcessKey of the script, or of the built-in decryptor.  A script that does
\* not implement the hook, and the built-in decryptor, keep the key as it came.
ScriptKey(t) ==
  /\ pc[t] = "script"
  /\ Call(t, TRUE)
  /\ \E empty \in BOOLEAN :
       KeyMade(t, IF Target(t) \in Script /\ "key" \in config.hooks[Target(t)]
                  THEN Target(t) ELSE "raw", empty)

\* The hook fails, or the process behind it does.  The built-in one never fails.
ScriptKeyFails(t) ==
  pc[t] = "script" /\ Target(t) \in Script /\ Call(t, FALSE) /\ Fails(t)

-----------------------------------------------------------------------------
(* The download of a segment of each key: Downloader.download, and          *)
(* Service.DecryptSegment.                                                 *)

Segment(t, k) ==
  /\ pc[t] = "segments" /\ k \in todo[t]
  /\ todo' = [todo EXCEPT ![t] = @ \ {k}]
  /\ at' = [at EXCEPT ![t] = k]
  /\ IF material[t][k].empty
     THEN plain' = [plain EXCEPT ![t][k] = "as is"] /\ UNCHANGED pc
     ELSE Go(t, "segment") /\ UNCHANGED plain
  /\ UNCHANGED <<sharedVars, url, material>>

Decrypted(t, by) ==
  /\ plain' = [plain EXCEPT ![t][at[t]] = by]
  /\ Go(t, "segments")
  /\ UNCHANGED <<sharedVars, url, todo, at, material>>

Has(t, hook) == Target(t) \in Script /\ hook \in config.hooks[Target(t)]

DecryptFull(t) ==
  /\ pc[t] = "full" /\ Has(t, "full")
  /\ \/ Decrypted(t, Target(t)) /\ Call(t, TRUE)
     \/ Decrypted(t, "failed") /\ Call(t, FALSE)

DecryptSegment(t) ==
  /\ pc[t] = "full" /\ ~Has(t, "full") /\ Has(t, "segment")
  /\ \/ Decrypted(t, Target(t)) /\ Call(t, TRUE)
     \/ Decrypted(t, "failed") /\ Call(t, FALSE)

\* ErrNotImplemented: AES-128 falls back to the built-in decryption.
Builtin(t) ==
  /\ pc[t] = "full" /\ ~Has(t, "full") /\ ~Has(t, "segment")
  /\ \/ MethodOf(t, at[t]) = "AES-128" /\ Decrypted(t, "builtin") /\ Call(t, TRUE)
     \/ Decrypted(t, "failed") /\ Call(t, FALSE)

Finish(t) ==
  /\ pc[t] = "segments" /\ todo[t] = {}
  /\ Go(t, "done")
  /\ UNCHANGED <<sharedVars, url, todo, at, material, plain>>

-----------------------------------------------------------------------------

Ended(t) == pc[t] \in {"absent", "done", "failed"}

\* Registry.Close: when the tasks have ended, or before, if a Shutdown does not
\* wait any longer.  It is called once.
Close ==
  /\ ~closed /\ mu = Nobody
  /\ closed' = TRUE
  /\ cache' = {}
  /\ loaded' = [s \in Script |-> IF s \in cache THEN loaded[s] - 1 ELSE loaded[s]]
  /\ stale' = {t \in Task : pc[t] \in {"script", "full"}}
  /\ overtaken' = {t \in Task : ~Ended(t)}
  /\ UNCHANGED <<active, mu, revived, taskVars>>

Between(t) ==
  \/ Fetch(t) \/ FetchFails(t) \/ Detect(t) \/ DetectFails(t)
  \/ \E k \in todo[t] : FetchKey(t, k) \/ Segment(t, k)
  \/ FetchKeyFails(t) \/ KeysDone(t)
  \/ ChooseHook(t) \/ ProviderKey(t) \/ ProviderKeyFails(t)
  \/ Hit(t) \/ Miss(t) \/ Loaded(t) \/ LoadFails(t) \/ Unsupported(t)
  \/ Finish(t)

Hooks(t) ==
  \/ ScriptKey(t) \/ ScriptKeyFails(t)
  \/ DecryptFull(t) \/ DecryptSegment(t) \/ Builtin(t)

Step(t) == Hooks(t) \/ (Between(t) /\ UNCHANGED afterClose)

Next == /\ (\E t \in Task : Step(t)) \/ Close
        /\ UNCHANGED <<config, params>>

Spec == Init /\ [][Next]_vars

\* Requests and hooks end, each within its timeout (ExternalDecryptor shows what
\* that takes), and a mutex that stays free is taken.
FairSpec == Spec /\ \A t \in Task : WF_vars(Step(t) /\ UNCHANGED <<config, params>>)

-----------------------------------------------------------------------------
(* Properties.                                                             *)

Parsed(t) == pc[t] \in {"segments", "segment", "loadSegment", "full", "done"}

\* The types.
TypeOK ==
  /\ config \in Config /\ params \in BOOLEAN
  /\ active \in Provider \cup {Nobody}
  /\ mu \in Task \cup {Nobody}
  /\ cache \subseteq Script
  /\ loaded \in [Script -> 0 .. Cardinality(Task)]
  /\ closed \in BOOLEAN
  /\ stale \subseteq Task /\ revived \subseteq External /\ overtaken \subseteq Task
  /\ pc \in [Task -> {"absent", "idle", "fetch", "detect", "keys", "key", "provider", "resolve",
                      "load", "script", "segments", "segment", "loadSegment", "full",
                      "done", "failed"}]
  /\ url \in [Task -> Url]
  /\ todo \in [Task -> SUBSET (1 .. MaxKeys)] /\ at \in [Task -> 0 .. MaxKeys]
  /\ material \in [Task -> [1 .. MaxKeys ->
       [by : Provider \cup Script \cup {"raw", Nobody}, empty : BOOLEAN]]]
  /\ plain \in [Task -> [1 .. MaxKeys -> Script \cup {"builtin", "as is", "failed", Nobody}]]

\* Of a playlist with a provider's signature, every key for which neither the
\* command line nor a rule names a script is made by that provider: not taken raw,
\* nor left to a script found by its name, nor to another provider, whatever
\* playlists other tasks parse between the detection and the key.
CloudKeysByProvider ==
  \A t \in Task : Parsed(t) /\ Web[url[t]].signature # Nobody =>
    \A k \in Encrypted(t) :
      ExplicitScript(MethodOf(t, k)) = Nobody => material[t][k].by = Web[url[t]].signature

\* What README.md:160 and scripts/README.md:145 say: only a script of the command
\* line comes before the provider; it comes before the rules of decrypt.yaml.
\* HasExplicitScript counts such a rule as explicit, so this does not hold.
ProviderBeforeRules ==
  \A t \in Task : Parsed(t) /\ Web[url[t]].signature # Nobody /\ config.cli = Nobody =>
    \A k \in Encrypted(t) : material[t][k].by = Web[url[t]].signature

\* Of each script there is one instance that was made and not closed, which the
\* cache has, or none; so a Close that comes after the last task leaves none
\* behind.  A Close that overtakes a task may: it comes once, and neither a script
\* that is loaded after it nor a process that a call has started again is closed
\* by anybody.
NothingLeftBehind ==
  /\ \A s \in Script : loaded[s] = IF s \in cache THEN 1 ELSE 0
  /\ closed /\ overtaken = {} => cache = {} /\ revived = {}

\* Every call of FromURL, and every segment after it, comes to an end.
TasksEnd == \A t \in Task : <>Ended(t)
=============================================================================
