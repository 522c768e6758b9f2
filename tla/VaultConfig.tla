---------------------------- MODULE VaultConfig ----------------------------
(***************************************************************************)
(* The files that make a directory a vault: vault.json, vault.key,         *)
(* vault.wrapped.json and policy.json, written in place (but for the       *)
(* policy) by commands that opened the vault earlier and hold a copy of    *)
(* its config: create, join, protect, policy, add-member, remove-member    *)
(* (src/src/vault.rs, invite.rs, policy.rs).                               *)
(*                                                                         *)
(* The vault is encrypted and has one key.  What matters of a wrapped key  *)
(* is the passphrase and the vault id it is bound to, of a signature what  *)
(* it covers.                                                              *)
(***************************************************************************)
EXTENDS Naturals, Sequences, FiniteSets

CONSTANTS Clients,        \* processes
          Passphrases, Nodes, Replicas,
          Invites, Terms, \* what an invite says: [seq, members, min]
          DefaultReplicas,
          NoFileYet, Truncated, Mixture,   \* contents of a file
          NoId, FirstId, NoSignature,
          MaxCommands     \* bound on the commands

\* A vault id is FirstId, or the one a client makes up for a vault without.
VaultIds == {NoId, FirstId} \cup Clients

\* vault.json.  embedded is key_hex, the key in the config of an old vault.
Covered == [id : VaultIds, seq : Nat, members : SUBSET Nodes, min : Nat,
            wrapped : BOOLEAN]
Config == [id : VaultIds, seq : Nat, members : SUBSET Nodes, min : Nat,
           wrapped : BOOLEAN, embedded : BOOLEAN,
           signature : Covered \cup {NoSignature}]

WrappedKey == [pass : Passphrases, id : VaultIds]

Unreadable == {NoFileYet, Truncated, Mixture}

ASSUME ConfigAssumption ==
  /\ Replicas \subseteq Nat \ {0} /\ DefaultReplicas \in Nat \ {0}
  /\ Terms \in [Invites -> [seq : Nat \ {0}, members : SUBSET Nodes, min : Nat \ {0}]]
  /\ MaxCommands \in Nat
  /\ {NoId, FirstId} \cap Clients = {} /\ NoId # FirstId
  /\ Replicas \cap (Nodes \cup Invites) = {}
  /\ Passphrases # {} /\ NoFileYet \notin Passphrases /\ NoFileYet # Truncated
  /\ \A u \in Unreadable : u \notin Config /\ u \notin WrappedKey

VARIABLES configFile,    \* vault.json
          keyFile,       \* vault.key: "absent", "truncated", "key"
          wrappedFile,   \* vault.wrapped.json: [pass, id]
          policyFile,    \* policy.json: min_replicas, 0 for no file
          folders,       \* "none", "root", "all": which directories exist
          steps,         \* per client: what is left of its command
          config,        \* per client: Vault::config in memory
          pass,          \* per client: the passphrase to wrap with
          wanted,        \* per client: what to set: replicas, a node, an invite
          home,          \* per client: is there a node key to sign with?
          commands,      \* commands so far
          born,          \* ghost: creation has got as far as the directories
          legacy,        \* ghost: the vault began as an old one
          together,      \* ghost: two commands have overlapped
          halfWritten,   \* ghost: files in whose write a client was killed
          halfApplied,   \* ghost: a client with a new min_replicas was killed
          protected      \* ghost: a protect has returned

configFiles == <<configFile, keyFile, wrappedFile, policyFile, folders>>
configLocals == <<steps, config, pass, wanted, home>>
configGhosts == <<born, legacy, together, halfWritten, halfApplied, protected>>
configVars == <<configFiles, configLocals, commands, configGhosts>>

Blank == [id |-> NoId, seq |-> 0, members |-> {}, min |-> DefaultReplicas,
          wrapped |-> FALSE, embedded |-> FALSE, signature |-> NoSignature]

\* No vault yet, or one that an old version made: no id, no sequence number,
\* and the key in the config or in its file.
ConfigInit ==
  /\ \/ /\ legacy = FALSE /\ folders = "none"
        /\ configFile = NoFileYet /\ keyFile = "absent"
     \/ /\ legacy = TRUE /\ folders = "all"
        /\ \/ configFile = [Blank EXCEPT !.embedded = TRUE] /\ keyFile = "absent"
           \/ configFile = Blank /\ keyFile = "key"
  /\ wrappedFile = NoFileYet /\ policyFile = 0
  /\ steps = [c \in Clients |-> <<>>]
  /\ config = [c \in Clients |-> Blank]
  /\ pass = [c \in Clients |-> NoFileYet]
  /\ wanted = [c \in Clients |-> 0]
  /\ home = [c \in Clients |-> FALSE]
  /\ commands = 0 /\ born = legacy
  /\ together = FALSE /\ halfWritten = {} /\ halfApplied = FALSE /\ protected = FALSE
-----------------------------------------------------------------------------
(* What the commands do                                                    *)

WriteConfig == <<"truncate_config", "write_config">>
WriteKey == <<"truncate_key", "write_key">>

\* Mutant of ProtectSteps: the plain key goes first.
BugRemoveKeyFirst ==
  <<"remove_key", "truncate_wrapped", "write_wrapped", "set_wrapped">> \o WriteConfig

\* enable_passphrase.
ProtectSteps ==
  <<"truncate_wrapped", "write_wrapped", "remove_key", "set_wrapped">> \o WriteConfig

\* create_with_policy and what Commands::Create does after it.
CreateSteps(protect) ==
  WriteConfig \o WriteKey \o <<"make_folders", "save_policy">>
    \o (IF protect THEN ProtectSteps ELSE <<>>)

\* join_invite: create_for_test, then the invite's fields.
JoinSteps == WriteConfig \o WriteKey \o <<"make_folders", "set_invite">> \o WriteConfig

\* Commands::Policy: load_policy, apply_policy.
PolicySteps == <<"load_policy", "save_policy", "set_min">> \o WriteConfig

Cover(cfg) == [id |-> cfg.id, seq |-> cfg.seq, members |-> cfg.members,
               min |-> cfg.min, wrapped |-> cfg.wrapped]

\* sign_vault_config, if the home has a node key.
Signed(c, cfg) == IF home[c] THEN [cfg EXCEPT !.signature = Cover(cfg)] ELSE cfg

\* bump_and_sign_config up to its write.
Bump(c, cfg) == Signed(c, [cfg EXCEPT !.seq = @ + 1])

-----------------------------------------------------------------------------
(* Starting a command                                                      *)

Running(c) == steps[c] # <<>>
Quiescent == \A c \in Clients : ~Running(c)

Launch(c, todo, key) ==
  /\ ~Running(c) /\ commands < MaxCommands
  /\ commands' = commands + 1
  /\ steps' = [steps EXCEPT ![c] = todo]
  /\ home' = [home EXCEPT ![c] = key]
  /\ together' = (together \/ ~Quiescent)

\* create makes the directory, or finds one and gives up; with a passphrase it
\* goes on to protect the key.
Create(c, key, n, p) ==
  /\ folders = "none" /\ folders' = "root"
  /\ Launch(c, CreateSteps(p # NoFileYet), key)
  /\ LET cfg == [Blank EXCEPT !.id = FirstId, !.seq = 1, !.min = n]
     IN  config' = [config EXCEPT ![c] =
           IF key THEN [cfg EXCEPT !.signature = Cover(cfg)] ELSE cfg]
  /\ pass' = [pass EXCEPT ![c] = p]
  /\ wanted' = [wanted EXCEPT ![c] = n]
  /\ UNCHANGED <<configFile, keyFile, wrappedFile, policyFile, born, legacy,
                 halfWritten, halfApplied, protected>>

Join(c, key, inv) ==
  /\ folders = "none" /\ folders' = "root"
  /\ Launch(c, JoinSteps, key)
  /\ config' = [config EXCEPT ![c] =
       [Blank EXCEPT !.id = FirstId, !.seq = 1, !.members = Terms[inv].members]]
  /\ wanted' = [wanted EXCEPT ![c] = inv]
  /\ UNCHANGED <<configFile, keyFile, wrappedFile, policyFile, pass, born, legacy,
                 halfWritten, halfApplied, protected>>

\* Mutant of UsesWrapped: the config alone says whether the key is wrapped.
BugTrustConfig == configFile.wrapped

\* open_with_passphrase gets the key: from the wrapped file if there is one or
\* the config says so, from the key file, or from the config.
UsesWrapped == wrappedFile # NoFileYet \/ configFile.wrapped
Embedded == ~UsesWrapped /\ keyFile = "absent" /\ configFile.embedded

Id(c) == IF configFile.id = NoId THEN c ELSE configFile.id

Opens(c, p) ==
  /\ configFile \notin Unreadable
  /\ \/ /\ UsesWrapped
        /\ wrappedFile \notin Unreadable
        /\ wrappedFile.pass = p /\ wrappedFile.id = Id(c)
     \/ ~UsesWrapped /\ keyFile = "key"
     \/ Embedded

\* The config in memory once the vault is open, and the writes that bring an
\* old vault up to date.
Opened(c) ==
  [configFile EXCEPT !.id = Id(c), !.seq = IF @ = 0 THEN 1 ELSE @,
                     !.wrapped = @ \/ UsesWrapped, !.embedded = @ /\ ~Embedded]

MigrationSteps(c) ==
  (IF Embedded THEN WriteKey \o WriteConfig ELSE <<>>)
    \o (IF configFile.id = NoId \/ configFile.seq = 0 THEN WriteConfig ELSE <<>>)

Open(c, key, p, todo, cfg) ==
  /\ Opens(c, p)
  /\ Launch(c, MigrationSteps(c) \o todo, key)
  /\ config' = [config EXCEPT ![c] = cfg]
  /\ UNCHANGED <<configFiles, born, legacy, halfWritten, halfApplied, protected>>

Protect(c, key, p, new) ==
  /\ Open(c, key, p, ProtectSteps, Opened(c))
  /\ pass' = [pass EXCEPT ![c] = new]
  /\ UNCHANGED wanted

\* n is 0 when --replicas is not given.
SetPolicy(c, key, p, n) ==
  /\ Open(c, key, p, PolicySteps, Opened(c))
  /\ wanted' = [wanted EXCEPT ![c] = n]
  /\ UNCHANGED pass

\* add-member of a node that is none, or remove-member of one that is.
ChangeMembers(c, key, p, n) ==
  /\ Open(c, key, p, <<"set_members">> \o WriteConfig, Opened(c))
  /\ wanted' = [wanted EXCEPT ![c] = n]
  /\ UNCHANGED pass

-----------------------------------------------------------------------------
(* The steps                                                               *)

Does(c, step) == Running(c) /\ Head(steps[c]) = step

\* The client goes on with rest, its config now cfg, or is done.
Proceed(c, rest, cfg) ==
  /\ steps' = [steps EXCEPT ![c] = rest]
  /\ IF rest = <<>>
     THEN /\ config' = [config EXCEPT ![c] = Blank]
          /\ pass' = [pass EXCEPT ![c] = NoFileYet]
          /\ wanted' = [wanted EXCEPT ![c] = 0]
          /\ home' = [home EXCEPT ![c] = FALSE]
     ELSE /\ config' = [config EXCEPT ![c] = cfg]
          /\ UNCHANGED <<pass, wanted, home>>

\* What is true once the last step is done.
Return(c) ==
  LET last == Len(steps[c]) = 1 IN
    /\ protected' = (protected \/ (last /\ pass[c] # NoFileYet))
    /\ halfApplied' = (halfApplied /\ ~(last /\ wanted[c] \in Replicas))

Rest(c) == Tail(steps[c])

TruncateFile(c) ==
  /\ Running(c)
  /\ \/ /\ Head(steps[c]) = "truncate_config"
        /\ configFile' = Truncated /\ UNCHANGED <<keyFile, wrappedFile>>
     \/ /\ Head(steps[c]) = "truncate_key"
        /\ keyFile' = "truncated" /\ UNCHANGED <<configFile, wrappedFile>>
     \/ /\ Head(steps[c]) = "truncate_wrapped"
        /\ wrappedFile' = Truncated /\ UNCHANGED <<configFile, keyFile>>
  /\ Proceed(c, Rest(c), config[c])
  /\ UNCHANGED <<policyFile, folders, commands, configGhosts>>

\* A config that another has filled meanwhile is written over from its start:
\* what is longer sticks out.
FillConfig(c) ==
  /\ Does(c, "write_config")
  /\ \/ configFile' = config[c]
     \/ configFile # Truncated /\ configFile' = Mixture
  /\ Proceed(c, Rest(c), config[c])
  /\ Return(c)
  /\ UNCHANGED <<keyFile, wrappedFile, policyFile, folders, commands, born, legacy,
                 together, halfWritten>>

\* A file that was removed meanwhile stays removed.
FillKey(c) ==
  /\ Does(c, "write_key")
  /\ keyFile' = IF keyFile = "absent" THEN "absent" ELSE "key"
  /\ Proceed(c, Rest(c), config[c])
  /\ UNCHANGED <<configFile, wrappedFile, policyFile, folders, commands, configGhosts>>

\* A wrapped key always has the same length.
FillWrapped(c) ==
  /\ Does(c, "write_wrapped")
  /\ wrappedFile' = [pass |-> pass[c], id |-> config[c].id]
  /\ Proceed(c, Rest(c), config[c])
  /\ UNCHANGED <<configFile, keyFile, policyFile, folders, commands, configGhosts>>

RemoveKey(c) ==
  /\ Does(c, "remove_key")
  /\ keyFile' = "absent"
  /\ Proceed(c, Rest(c), config[c])
  /\ UNCHANGED <<configFile, wrappedFile, policyFile, folders, commands, configGhosts>>

\* Mutants of SetConfig: the old field keeps the key; the signature is made
\* before key_wrapped is set.
BugKeepEmbedded(c) ==
  /\ \/ Does(c, "set_wrapped") /\ Proceed(c, Rest(c),
           Bump(c, [config[c] EXCEPT !.wrapped = TRUE]))
     \/ Does(c, "set_members") /\ Proceed(c, Rest(c), Bump(c, config[c]))
  /\ UNCHANGED <<configFiles, commands, configGhosts>>
BugWrapAfterSigning(c) ==
  /\ \/ Does(c, "set_wrapped") /\ Proceed(c, Rest(c),
           [Bump(c, config[c]) EXCEPT !.wrapped = TRUE, !.embedded = FALSE])
     \/ Does(c, "set_members") /\ Proceed(c, Rest(c), Bump(c, config[c]))
  /\ UNCHANGED <<configFiles, commands, configGhosts>>

\* The changes of the config in memory.
SetConfig(c) ==
  /\ \/ Does(c, "set_wrapped") /\ Proceed(c, Rest(c),
           Bump(c, [config[c] EXCEPT !.wrapped = TRUE, !.embedded = FALSE]))
     \/ Does(c, "set_members") /\ Proceed(c, Rest(c),
           Bump(c, [config[c] EXCEPT !.members =
             IF wanted[c] \in @ THEN @ \ {wanted[c]} ELSE @ \cup {wanted[c]}]))
     \/ Does(c, "set_invite") /\ Proceed(c, Rest(c),
           [config[c] EXCEPT !.min = Terms[wanted[c]].min, !.seq = Terms[wanted[c]].seq])
  /\ UNCHANGED <<configFiles, commands, configGhosts>>

MakeFolders(c) ==
  /\ Does(c, "make_folders")
  /\ folders' = "all" /\ born' = TRUE
  /\ Proceed(c, Rest(c), config[c])
  /\ UNCHANGED <<configFile, keyFile, wrappedFile, policyFile, commands, legacy,
                 together, halfWritten, halfApplied, protected>>

\* Mutant of LoadPolicy: a policy that does not change is not applied.
BugApplyChangesOnly(c) ==
  /\ Does(c, "load_policy")
  /\ LET current == IF policyFile = 0 THEN config[c].min ELSE policyFile IN
       /\ policyFile' = current
       /\ IF wanted[c] \in {0, current}
          THEN Proceed(c, <<>>, Blank) /\ halfApplied' = FALSE
          ELSE /\ steps' = [steps EXCEPT ![c] = Tail(@)]
               /\ UNCHANGED <<config, pass, wanted, home, halfApplied>>
  /\ UNCHANGED <<configFile, keyFile, wrappedFile, folders, commands, born, legacy,
                 together, halfWritten, protected>>

\* load_policy makes the file that is missing.
LoadPolicy(c) ==
  /\ Does(c, "load_policy")
  /\ LET current == IF policyFile = 0 THEN config[c].min ELSE policyFile IN
       /\ policyFile' = current
       /\ wanted' = [wanted EXCEPT ![c] = IF @ = 0 THEN current ELSE @]
  /\ steps' = [steps EXCEPT ![c] = Tail(@)]
  /\ UNCHANGED <<configFile, keyFile, wrappedFile, folders, config, pass, home,
                 commands, configGhosts>>

\* save_policy renames.
SavePolicy(c) ==
  /\ Does(c, "save_policy")
  /\ policyFile' = wanted[c]
  /\ Proceed(c, Rest(c), config[c])
  /\ Return(c)
  /\ UNCHANGED <<configFile, keyFile, wrappedFile, folders, commands, born, legacy,
                 together, halfWritten>>

\* set_min_replicas, if the config in memory has another value.
SetMin(c) ==
  /\ Does(c, "set_min")
  /\ IF config[c].min # wanted[c]
     THEN /\ Proceed(c, Rest(c), Bump(c, [config[c] EXCEPT !.min = wanted[c]]))
          /\ UNCHANGED halfApplied
     ELSE Proceed(c, <<>>, config[c]) /\ halfApplied' = FALSE
  /\ UNCHANGED <<configFiles, commands, born, legacy, together, halfWritten,
                 protected>>

\* The client is killed, possibly inside a write.
KillClient(c) ==
  /\ Running(c)
  /\ Proceed(c, <<>>, Blank)
  /\ halfWritten' = halfWritten \cup
       ({Head(steps[c])} \cap {"write_config", "write_key", "write_wrapped"})
  /\ halfApplied' = (halfApplied \/ (wanted[c] \in Replicas
                       /\ ~\E i \in DOMAIN steps[c] : steps[c][i] = "save_policy"))
  /\ UNCHANGED <<configFiles, commands, born, legacy, together, protected>>

ConfigNext ==
  \/ \E c \in Clients, key \in BOOLEAN :
       \/ \E n \in Replicas, p \in Passphrases \cup {NoFileYet} : Create(c, key, n, p)
       \/ \E inv \in Invites : Join(c, key, inv)
       \/ \E p \in Passphrases :
            \/ \E new \in Passphrases : Protect(c, key, p, new)
            \/ \E n \in Replicas \cup {0} : SetPolicy(c, key, p, n)
            \/ \E n \in Nodes : ChangeMembers(c, key, p, n)
  \/ \E c \in Clients :
       \/ TruncateFile(c) \/ FillConfig(c) \/ FillKey(c) \/ FillWrapped(c)
       \/ RemoveKey(c) \/ SetConfig(c) \/ MakeFolders(c)
       \/ LoadPolicy(c) \/ SavePolicy(c) \/ SetMin(c) \/ KillClient(c)

ConfigSpec == ConfigInit /\ [][ConfigNext]_configVars

-----------------------------------------------------------------------------
ConfigTypeOK ==
  /\ configFile \in Config \cup Unreadable
  /\ keyFile \in {"absent", "truncated", "key"}
  /\ wrappedFile \in WrappedKey \cup Unreadable
  /\ policyFile \in Nat /\ folders \in {"none", "root", "all"}
  /\ \A c \in Clients : config[c] \in Config /\ pass[c] \in Passphrases \cup {NoFileYet}
  /\ home \in [Clients -> BOOLEAN]
  /\ {born, legacy, together, halfApplied, protected} \subseteq BOOLEAN
  /\ halfWritten \subseteq {"write_config", "write_key", "write_wrapped"}

\* However commands overlap and wherever they are killed, the key of a vault
\* stays on disk or is about to be written there, in one of its three forms.
\* Only a kill inside the write of the wrapped key may lose it, because a
\* second protect truncates the one form there is; and one inside the write of
\* the key file, if another command migrates the same old vault.
KeyKept ==
  /\ born /\ "write_wrapped" \notin halfWritten
  /\ "write_key" \in halfWritten => ~together
  =>
    \/ keyFile = "key"
    \/ wrappedFile \notin Unreadable
    \/ configFile \notin Unreadable /\ configFile.embedded
    \/ \E c \in Clients : Does(c, "write_wrapped") \/ Does(c, "write_key")

\* Used by one command at a time, a vault always opens again, with the
\* passphrase of its wrapped key if it has one, and has all its directories,
\* also when commands are killed between two writes, or an old vault is brought
\* up to date halfway.
Openable ==
  born /\ Quiescent /\ ~together /\ halfWritten = {} =>
    /\ \A c \in Clients : \E p \in Passphrases : Opens(c, p)
    /\ folders = "all"

\* "Removes plaintext vault.key" (vault.rs:297): once a protect has returned
\* no plain key is on disk, neither its file nor the field of an old config,
\* whatever was killed before.
PlainKeyGone ==
  protected /\ Quiescent /\ ~together =>
    /\ keyFile = "absent"
    /\ configFile \notin Unreadable => ~configFile.embedded

\* "Apply policy and sync min_replicas into vault config" (policy.rs:158): the
\* two files agree once a policy command has returned, also after an earlier
\* one was killed between the two.
MinAgrees ==
  Quiescent /\ ~together /\ ~halfApplied /\ configFile \notin Unreadable =>
    policyFile \in {0, configFile.min}

\* Every config on disk carries a signature that covers it, however commands
\* overlap, unless a command without the node key has changed it since.
SignatureCovers ==
  configFile \notin Unreadable /\ configFile.signature # NoSignature
    /\ configFile.seq = configFile.signature.seq
    => Cover(configFile) = configFile.signature
=============================================================================
