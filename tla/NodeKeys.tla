------------------------------- MODULE NodeKeys -------------------------------
(***************************************************************************)
(* The RSA keys of a community of nodes.  A node's key pair lives in three *)
(* places: two files, written one after the other without a lock when the  *)
(* node first starts and whenever an operator rotates the keys; the        *)
(* AS5Engine, which loads the private file when the process starts and     *)
(* never again; and the JWKS column of the rows its partners keep, filled  *)
(* when their operators discover the node and refreshed by nothing else.   *)
(*                                                                         *)
(* A key stands for the pair.  An envelope is signed with the sender's     *)
(* engine and encrypted for the receiver the sender's row describes.       *)
(***************************************************************************)
EXTENDS Naturals

CONSTANTS
    Nodes,
    Keys,        \* the key pairs GenerateKeyPair will come up with
    Tasks,       \* calls that write key files, at most this many at once
    NoKey,
    MaxBoots,    \* bound on the starts of a node
    MaxFaults    \* bound on crashes while a file is written and failed writes

ASSUME NoKeyAssumption  == NoKey \notin Keys
ASSUME NodesAssumption  == "nowhere" \notin Nodes
ASSUME BootsAssumption  == MaxBoots \in Nat /\ MaxFaults \in Nat

\* A key file: a key, no file, or one cut off between O_TRUNC and the write.
Content == Keys \cup {"missing", "torn"}

Steps == {"idle", "openPrivate", "writePrivate", "openPublic", "writePublic"}

VARIABLES
    private,     \* the file at PrivateKeyPath
    public,      \* the file at PublicKeyPath
    used,        \* keys generated so far
    engine,      \* the running process's AS5Engine; NoKey while it is down
    trusted,     \* trusted[n][m]: the JWKS of m in n's trading_partners
    fetched,     \* <<n, m, key, boot>>: fetched by n's discovery, not saved yet
    task,        \* where each call that writes files stands
    mail,        \* envelopes under way
    boots,       \* starts of each node
    learned,     \* history: m's boot in which trusted[n][m] was published
    spoilt,      \* history: nodes whose writes overlapped or were cut off
    faults

fileVars  == <<private, public, used, task, spoilt>>
trustVars == <<trusted, learned, fetched>>
vars == <<fileVars, trustVars, engine, mail, boots, faults>>

IdleTask == [at |-> "nowhere", key |-> NoKey, step |-> "idle"]

Init ==
    /\ private = [n \in Nodes |-> "missing"] /\ public = [n \in Nodes |-> "missing"]
    /\ used = {} /\ engine = [n \in Nodes |-> NoKey]
    /\ trusted = [n \in Nodes |-> [m \in Nodes |-> NoKey]]
    /\ learned = [n \in Nodes |-> [m \in Nodes |-> 0]]
    /\ fetched = {} /\ mail = {}
    /\ task = [t \in Tasks |-> IdleTask]
    /\ boots = [n \in Nodes |-> 0]
    /\ spoilt = {} /\ faults = 0

Up(n) == engine[n] # NoKey
Writing(n) == {t \in Tasks : task[t].at = n}

-----------------------------------------------------------------------------
(***************************************************************************)
(* rotateKeysHandler, and ensureKeysExist when there is no private file:   *)
(* a new pair, then os.WriteFile of the private and of the public key,     *)
(* each of which truncates the file and then writes it.                    *)
(***************************************************************************)
Generate(t, n) ==
    /\ task[t] = IdleTask
    /\ \/ Up(n)
       \/ ~Up(n) /\ private[n] = "missing" /\ Writing(n) = {} /\ boots[n] < MaxBoots
    /\ \E k \in Keys \ used :
          /\ used' = used \cup {k}
          /\ task' = [task EXCEPT ![t] = [at |-> n, key |-> k, step |-> "openPrivate"]]
    /\ spoilt' = IF Writing(n) = {} THEN spoilt ELSE spoilt \cup {n}
    /\ UNCHANGED <<private, public, trustVars, engine, mail, boots, faults>>

Goto(t, step) == task' = [task EXCEPT ![t].step = step]

WritePrivate(t) ==
    /\ \/ /\ task[t].step = "openPrivate" /\ Goto(t, "writePrivate")
          /\ private' = [private EXCEPT ![task[t].at] = "torn"]
       \/ /\ task[t].step = "writePrivate" /\ Goto(t, "openPublic")
          /\ private' = [private EXCEPT ![task[t].at] = task[t].key]
    /\ UNCHANGED <<public, used, spoilt, trustVars, engine, mail, boots, faults>>

\* Mutant of WritePublic: the public key of the engine is written.
WriteEnginePublic(t) ==
    /\ \/ /\ task[t].step = "openPublic" /\ Goto(t, "writePublic")
          /\ public' = [public EXCEPT ![task[t].at] = "torn"]
       \/ /\ task[t].step = "writePublic"
          /\ task' = [task EXCEPT ![t] = IdleTask]
          /\ public' = [public EXCEPT ![task[t].at] =
                IF Up(task[t].at) THEN engine[task[t].at] ELSE task[t].key]
    /\ UNCHANGED <<private, used, spoilt, trustVars, engine, mail, boots, faults>>

\* After the last write the call has succeeded.
WritePublic(t) ==
    /\ \/ /\ task[t].step = "openPublic" /\ Goto(t, "writePublic")
          /\ public' = [public EXCEPT ![task[t].at] = "torn"]
       \/ /\ task[t].step = "writePublic"
          /\ task' = [task EXCEPT ![t] = IdleTask]
          /\ public' = [public EXCEPT ![task[t].at] = task[t].key]
    /\ UNCHANGED <<private, used, spoilt, trustVars, engine, mail, boots, faults>>

\* A write fails: the call ends, and what is torn stays torn.
WriteFails(t) ==
    /\ task[t].step # "idle" /\ faults < MaxFaults
    /\ faults' = faults + 1
    /\ task' = [task EXCEPT ![t] = IdleTask]
    /\ spoilt' = spoilt \cup {task[t].at}
    /\ UNCHANGED <<private, public, used, trustVars, engine, mail, boots>>
-----------------------------------------------------------------------------
(***************************************************************************)
(* The process.  A file that is there is not generated again, and one that *)
(* holds no key ends the start with a fatal error.                         *)
(***************************************************************************)
\* Mutant of Boot: a file that was generated is a file with a key.
BootAnyway(n) ==
    /\ ~Up(n) /\ Writing(n) = {} /\ private[n] # "missing" /\ boots[n] < MaxBoots
    /\ engine' = [engine EXCEPT ![n] = private[n]]
    /\ boots' = [boots EXCEPT ![n] = @ + 1]
    /\ UNCHANGED <<fileVars, trustVars, mail, faults>>

\* NewAS5Engine parses what loadPrivateKey read.
Loadable(n) == private[n] \in Keys

Boot(n) ==
    /\ ~Up(n) /\ Writing(n) = {} /\ Loadable(n) /\ boots[n] < MaxBoots
    /\ engine' = [engine EXCEPT ![n] = private[n]]
    /\ boots' = [boots EXCEPT ![n] = @ + 1]
    /\ UNCHANGED <<fileVars, trustVars, mail, faults>>

\* The process ends; a call that was writing ends with it, which counts as a
\* disturbance.  What its discoveries fetched is forgotten.
Stop(n) ==
    /\ Up(n) \/ Writing(n) # {}
    /\ \/ Writing(n) = {} /\ UNCHANGED <<spoilt, faults>>
       \/ /\ Writing(n) # {} /\ faults < MaxFaults
          /\ faults' = faults + 1 /\ spoilt' = spoilt \cup {n}
    /\ engine' = [engine EXCEPT ![n] = NoKey]
    /\ task' = [t \in Tasks |-> IF t \in Writing(n) THEN IdleTask ELSE task[t]]
    /\ fetched' = {f \in fetched : f[1] # n}
    /\ UNCHANGED <<private, public, used, trusted, learned, mail, boots>>
-----------------------------------------------------------------------------
(***************************************************************************)
(* Partners.  discoverPartnerHandler fetches the peer's JWKS, which        *)
(* jwksHandler exports from the engine, and upserts it in a later step.    *)
(***************************************************************************)
\* Mutant of ExportJWKS: the key file is published.
ExportKeyFile(m) == IF private[m] \in Keys THEN private[m] ELSE engine[m]

ExportJWKS(m) == engine[m]

\* FetchAS5Config: m answers with a configuration that names its JWKS.
Discoverable(n, m) == n # m /\ Up(n) /\ Up(m)

\* What n holds until it is saved; m's boots are there to tell its lives apart.
FetchAndCachePartnerKeys(n, m) == <<n, m, ExportJWKS(m), boots[m]>>

FetchKeys(n, m) ==
    /\ Discoverable(n, m)
    /\ fetched' = fetched \cup {FetchAndCachePartnerKeys(n, m)}
    /\ UNCHANGED <<fileVars, trusted, learned, engine, mail, boots, faults>>

SavePartner(f) ==
    LET n == f[1]
        m == f[2]
    IN  /\ fetched' = fetched \ {f}
        /\ \/ /\ trusted' = [trusted EXCEPT ![n][m] = f[3]]
              /\ learned' = [learned EXCEPT ![n][m] = f[4]]
           \/ UNCHANGED <<trusted, learned>>   \* the upsert fails
        /\ UNCHANGED <<fileVars, engine, mail, boots, faults>>

RemovePartner(n, m) ==
    /\ Up(n) /\ trusted[n][m] # NoKey
    /\ trusted' = [trusted EXCEPT ![n][m] = NoKey]
    /\ learned' = [learned EXCEPT ![n][m] = 0]
    /\ UNCHANGED <<fileVars, fetched, engine, mail, boots, faults>>
-----------------------------------------------------------------------------
(***************************************************************************)
(* Envelopes.  SignAndEncryptWithAlg on every attempt anew; DecryptAndVerify *)
(* when it arrives.  made and aimed are history: the boots of the sender   *)
(* that signed, and of the receiver whose key was used.                    *)
(***************************************************************************)
\* The key n reads out of its row of m, whichever use it is for: a node publishes
\* the same pair for signatures and for encryption.
KeyOf(n, m) == trusted[n][m]

SignAndEncrypt(n, m) ==
    [from |-> n, to |-> m, lock |-> KeyOf(n, m), seal |-> engine[n],
     made |-> boots[n], aimed |-> learned[n][m]]

Send(n, m) ==
    /\ Up(n) /\ KeyOf(n, m) # NoKey
    /\ mail' = mail \cup {SignAndEncrypt(n, m)}
    /\ UNCHANGED <<fileVars, trustVars, engine, boots, faults>>

DecryptAndVerify(e) ==
    e.lock = engine[e.to] /\ e.seal = KeyOf(e.to, e.from)

\* It arrives, is opened or refused, or is lost.
Arrive(e) ==
    /\ mail' = mail \ {e}
    /\ UNCHANGED <<fileVars, trustVars, engine, boots, faults>>
-----------------------------------------------------------------------------
Operators ==
    \E n, m \in Nodes : FetchKeys(n, m) \/ RemovePartner(n, m) \/ Send(n, m)

Files ==
    \E t \in Tasks :
        \/ WritePrivate(t) \/ WritePublic(t) \/ WriteFails(t)
        \/ \E n \in Nodes : Generate(t, n)

Next ==
    \/ Operators \/ Files
    \/ \E n \in Nodes : Boot(n) \/ Stop(n)
    \/ \E f \in fetched : SavePartner(f)
    \/ \E e \in mail : Arrive(e)

Spec == Init /\ [][Next]_vars
-----------------------------------------------------------------------------
TypeOK ==
    /\ private \in [Nodes -> Content] /\ public \in [Nodes -> Content]
    /\ used \subseteq Keys /\ engine \in [Nodes -> Keys \cup {NoKey}]
    /\ trusted \in [Nodes -> [Nodes -> Keys \cup {NoKey}]]
    /\ learned \in [Nodes -> [Nodes -> 0 .. MaxBoots]]
    /\ fetched \subseteq (Nodes \X Nodes \X Keys \X (1 .. MaxBoots))
    /\ task \in [Tasks -> [at : Nodes \cup {"nowhere"}, key : Keys \cup {NoKey},
                           step : Steps]]
    /\ mail \subseteq [from : Nodes, to : Nodes, lock : Keys, seal : Keys,
                       made : 1 .. MaxBoots, aimed : 1 .. MaxBoots]
    /\ boots \in [Nodes -> 0 .. MaxBoots]
    /\ spoilt \subseteq Nodes /\ faults \in 0 .. MaxFaults

\* An envelope under way can be opened as long as the receiver runs on since its
\* keys were fetched, and the receiver's row of the sender is from the process
\* that signed: rotations that are only on disk, discoveries of other nodes and
\* restarts that find the same file do no harm.
OpensWithinALife ==
    \A e \in mail :
        /\ Up(e.to) /\ e.aimed = boots[e.to]
        /\ e.made = learned[e.to][e.from]
        => DecryptAndVerify(e)

\* Once no call is writing, the two files of a node are a pair, whatever was
\* rotated in between, if no write was cut off and no two calls overlapped.
Pair(n) == private[n] = public[n]

FilesMatchUnlessSpoilt ==
    \A n \in Nodes : Writing(n) = {} /\ n \notin spoilt => Pair(n)
=============================================================================
