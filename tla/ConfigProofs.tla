---------------------------- MODULE ConfigProofs ----------------------------
(***************************************************************************)
(* What VaultConfig keeps whatever the clients, the passphrases, the       *)
(* members and the invites, and however many commands are given.           *)
(*                                                                         *)
(* A command is a sequence of steps; the invariants speak of what is left  *)
(* of it.  Every plan is Ordered, and Ordered is what the tail of a plan   *)
(* inherits: so each invariant only needs to know which step is the first  *)
(* and which steps follow.                                                 *)
(***************************************************************************)
EXTENDS VaultConfig, SequenceTheorems, TLAPS

(* What is left of a command                                               *)

StepNames ==
  {"truncate_config", "write_config", "truncate_key", "write_key",
   "truncate_wrapped", "write_wrapped", "remove_key", "set_wrapped", "set_members",
   "set_invite", "set_min", "make_folders", "load_policy", "save_policy"}

In(s, x) == \E i \in DOMAIN s : s[i] = x
Later(s, i, x) == \E j \in DOMAIN s : j > i /\ s[j] = x
Due(c, x) == In(steps[c], x)

\* The order of the steps of every command, at the i-th.
OrderedAt(s, i) ==
  \* a file is filled right after it is truncated,
  /\ s[i] = "truncate_config" => i < Len(s) /\ s[i + 1] = "write_config"
  /\ s[i] = "truncate_key" => i < Len(s) /\ s[i + 1] = "write_key"
  /\ s[i] = "truncate_wrapped" => i < Len(s) /\ s[i + 1] = "write_wrapped"
  /\ i < Len(s) =>
       /\ s[i + 1] = "write_config" => s[i] = "truncate_config"
       /\ s[i + 1] = "write_key" => s[i] = "truncate_key"
       /\ s[i + 1] = "write_wrapped" => s[i] = "truncate_wrapped"
       \* the key is wrapped before it is removed, and then the config changed,
       /\ s[i + 1] = "remove_key" => s[i] = "write_wrapped"
       /\ s[i + 1] = "set_wrapped" => s[i] = "remove_key"
  \* the key file is not made again,
  /\ s[i] \in {"make_folders", "truncate_wrapped", "write_wrapped"} =>
       ~Later(s, i, "truncate_key") /\ ~Later(s, i, "write_key")
  \* only who makes the vault writes its config before its key,
  /\ s[i] \in {"truncate_config", "write_config"} =>
       \/ ~Later(s, i, "truncate_key") /\ ~Later(s, i, "write_key")
       \/ Later(s, i, "make_folders")
  \* some steps are taken once,
  /\ s[i] \in {"make_folders", "load_policy", "save_policy", "set_min"} => ~Later(s, i, s[i])
  \* the policy before the config, and an invite has none.
  /\ s[i] = "load_policy" =>
       /\ Later(s, i, "save_policy")
       /\ ~Later(s, i, "set_members") /\ ~Later(s, i, "set_invite")
  /\ s[i] = "save_policy" => ~Later(s, i, "load_policy") /\ ~Later(s, i, "set_invite")
  /\ s[i] = "set_min" =>
       /\ ~Later(s, i, "load_policy") /\ ~Later(s, i, "save_policy")
       /\ ~Later(s, i, "set_invite") /\ Later(s, i, "write_config")
  /\ s[i] = "set_invite" => ~Later(s, i, "save_policy") /\ ~Later(s, i, "set_min")
  /\ s[i] \in {"set_wrapped", "set_members"} => ~Later(s, i, "set_invite")

Ordered(s) == \A i \in DOMAIN s : OrderedAt(s, i)

\* Some x is left, with no y up to it.
Before(s, X, Y) == \E i \in DOMAIN s : s[i] \in X /\ \A j \in 1 .. i : s[j] \notin Y

\* A command with a passphrase protects: the key it may write it removes
\* again, and the config is its last file.
Protects(s) ==
  s # <<>> =>
    /\ s[Len(s)] = "write_config"
    /\ \A i \in DOMAIN s :
         s[i] \in {"truncate_key", "write_key"} => Later(s, i, "remove_key")

CPlanInv ==
  \A c \in Clients :
    /\ Ordered(steps[c])
    /\ pass[c] # NoFileYet => Protects(steps[c])

Readable == configFile \notin Unreadable

Locals ==
  /\ config \in [Clients -> Config]
  /\ steps \in [Clients -> Seq(StepNames)]
  /\ pass \in [Clients -> Passphrases \cup {NoFileYet}]
  /\ wanted \in [Clients -> Nat \cup Nodes \cup Invites]
  /\ home \in [Clients -> BOOLEAN]

VaultFiles ==
  /\ Readable => configFile \in Config
  /\ keyFile \in {"absent", "truncated", "key"}
  /\ wrappedFile \in WrappedKey \cup Unreadable
  /\ policyFile \in Nat /\ folders \in {"none", "root", "all"}

Ghosts ==
  /\ commands \in Nat
  /\ born \in BOOLEAN /\ legacy \in BOOLEAN /\ together \in BOOLEAN
  /\ halfApplied \in BOOLEAN /\ protected \in BOOLEAN
  /\ halfWritten \subseteq {"write_config", "write_key", "write_wrapped"}

CTypes == Locals /\ VaultFiles /\ Ghosts

\* What a command was given is what its steps use.
GivenInv ==
  \A c \in Clients :
    /\ Due(c, "truncate_wrapped") \/ Due(c, "write_wrapped") => pass[c] \in Passphrases
    /\ Due(c, "set_members") => wanted[c] \in Nodes
    /\ Due(c, "set_invite") => wanted[c] \in Invites
    /\ Due(c, "load_policy") => wanted[c] \in Replicas \cup {0}
    /\ Due(c, "save_policy") \/ Due(c, "set_min") => wanted[c] \in Nat
    /\ ~Running(c) => pass[c] = NoFileYet /\ wanted[c] = 0

\* What there is before and while a vault is made.
MakingInv ==
  /\ folders = "none" =>
       /\ ~born /\ Quiescent /\ configFile = NoFileYet /\ keyFile = "absent"
       /\ wrappedFile = NoFileYet /\ policyFile = 0
  /\ born => folders = "all"
  /\ \A c \in Clients : Due(c, "make_folders") => ~born /\ folders = "root"
  /\ \A c, d \in Clients : Due(c, "make_folders") /\ Due(d, "make_folders") => c = d
  \* a config that says so, or is about to say so, comes after the wrapped key
  /\ \A c \in Clients :
       /\ Does(c, "write_wrapped") \/ Does(c, "remove_key") \/ Does(c, "set_wrapped")
            => wrappedFile # NoFileYet
       /\ Running(c) /\ config[c].wrapped => wrappedFile # NoFileYet
  /\ Readable /\ configFile.wrapped => wrappedFile # NoFileYet

-----------------------------------------------------------------------------
(* The key                                                                 *)

WrapSafe == wrappedFile \notin Unreadable \/ \E d \in Clients : Does(d, "write_wrapped")
KeySafe == keyFile = "key" \/ WrapSafe \/ \E d \in Clients : Does(d, "write_key")

\* No kill has destroyed the only form of the key.
Spared == "write_wrapped" \notin halfWritten /\ ("write_key" \in halfWritten => ~together)

KeyInv ==
  \* the key file is removed once the key is wrapped,
  /\ "write_wrapped" \notin halfWritten =>
       \A c \in Clients :
         (Does(c, "write_key") /\ keyFile = "absent") \/ Does(c, "remove_key") => WrapSafe
  \* a command that has no key to write has its key outside the config,
  /\ Spared => \A c \in Clients : Running(c) => KeySafe \/ Due(c, "write_key")
  /\ Spared /\ born => KeySafe \/ (Readable /\ configFile.embedded)

\* As long as no two commands overlap:
SerialInv ==
  ~together =>
    /\ \A c, d \in Clients : Running(c) /\ Running(d) => c = d
    /\ \A c \in Clients : Does(c, "write_config") => configFile = Truncated
    \* the key is written by who makes the vault, or finds it in the config
    /\ \A c \in Clients : Due(c, "write_key") =>
         /\ wrappedFile = NoFileYet
         /\ Due(c, "make_folders") \/ (Readable /\ configFile.embedded)
         /\ Does(c, "write_key") => keyFile = "truncated"
    /\ "write_key" \in halfWritten =>
         /\ Quiescent /\ keyFile = "truncated" /\ wrappedFile = NoFileYet /\ folders # "none"
         /\ born => Readable /\ configFile.embedded

-----------------------------------------------------------------------------
(* The signature                                                           *)

\* A signature is of this vault, and no newer than the config.
DatedConfig(cfg) ==
  cfg.signature # NoSignature =>
    cfg.id # NoId /\ cfg.signature.seq > 0 /\ cfg.signature.seq <= cfg.seq
Covering(cfg) ==
  cfg.signature # NoSignature /\ cfg.seq = cfg.signature.seq => Cover(cfg) = cfg.signature

SignInv ==
  /\ Readable => DatedConfig(configFile) /\ Covering(configFile)
  /\ \A c \in Clients : Running(c) =>
       /\ DatedConfig(config[c]) /\ config[c].id # NoId /\ config[c].seq > 0
       /\ Due(c, "set_invite") => config[c].signature = NoSignature
       \* what it does not cover is signed anew before it is written
       /\ \/ Covering(config[c])
          \/ Before(steps[c], {"set_wrapped", "set_members", "set_min"}, {"write_config"})

-----------------------------------------------------------------------------
(* Opening the vault again                                                 *)

OpenInv ==
  ~together =>
    \* a truncated file is being filled
    /\ halfWritten = {} =>
         /\ born /\ ~Readable => \E c \in Clients : Does(c, "write_config")
         /\ \A c \in Clients : Due(c, "make_folders") /\ ~Readable =>
              Before(steps[c], {"write_config"}, {"make_folders"})
         /\ wrappedFile \in Unreadable \ {NoFileYet} =>
              \E c \in Clients : Does(c, "write_wrapped")
         /\ keyFile = "truncated" => \E c \in Clients : Does(c, "write_key")
    \* the wrapped key is bound to the id of the vault
    /\ wrappedFile \notin Unreadable =>
         /\ wrappedFile.id # NoId
         /\ Readable => configFile.id = wrappedFile.id
         /\ \A c \in Clients : Running(c) => config[c].id = wrappedFile.id
    /\ \A c \in Clients : Running(c) /\ Readable /\ configFile.id # config[c].id =>
         /\ wrappedFile = NoFileYet
         /\ Before(steps[c], {"write_config"}, {"truncate_wrapped"})

-----------------------------------------------------------------------------
(* The plain key                                                           *)

PlainInv ==
  ~together =>
    /\ protected =>
         /\ keyFile = "absent" /\ wrappedFile # NoFileYet
         /\ Readable => ~configFile.embedded
         /\ \A c \in Clients : Running(c) =>
              ~config[c].embedded /\ ~Due(c, "truncate_key") /\ ~Due(c, "write_key")
    /\ \A c \in Clients : Running(c) /\ pass[c] # NoFileYet =>
         /\ ~Due(c, "remove_key") => keyFile = "absent" /\ wrappedFile # NoFileYet
         /\ ~Due(c, "set_wrapped") => ~config[c].embedded

-----------------------------------------------------------------------------
(* The policy and the config                                               *)

\* The policy is on its way into the config.
Applying(c) == Due(c, "save_policy") \/ Due(c, "set_min")

MinInv ==
  ~together =>
    /\ Readable => configFile.min > 0
    /\ Quiescent /\ ~halfApplied /\ Readable => policyFile \in {0, configFile.min}
    /\ \A c \in Clients : Running(c) =>
         /\ config[c].min > 0
         /\ Due(c, "set_invite") => policyFile = 0
         /\ Applying(c) /\ Readable => configFile.min = config[c].min
         \* what it will save,
         /\ Due(c, "save_policy") /\ ~Due(c, "set_min") => wanted[c] = config[c].min
         /\ Due(c, "save_policy") /\ ~Due(c, "load_policy") /\ ~halfApplied =>
              wanted[c] = config[c].min \/ (wanted[c] \in Replicas /\ Due(c, "set_min"))
         /\ Due(c, "set_min") /\ ~Due(c, "load_policy") => wanted[c] # 0
         \* what it has saved,
         /\ Due(c, "set_min") /\ ~Due(c, "save_policy") => policyFile = wanted[c]
         /\ wanted[c] \in Replicas /\ ~Applying(c) => policyFile = config[c].min
         /\ ~halfApplied =>
              \/ policyFile \in {0, config[c].min}
              \/ wanted[c] \in Replicas /\ Due(c, "set_min") /\ ~Due(c, "save_policy")
         \* and what it has still to write.
         /\ Readable =>
              \/ configFile.min = config[c].min
              \/ policyFile = 0
              \/ /\ Due(c, "write_config") /\ ~Due(c, "save_policy")
                 /\ halfApplied \/ wanted[c] \in Replicas

CInv ==
  /\ CTypes /\ CPlanInv /\ GivenInv /\ MakingInv /\ KeyInv /\ SerialInv
  /\ SignInv /\ OpenInv /\ PlainInv /\ MinInv
-----------------------------------------------------------------------------
(* Sequences of steps                                                      *)

\* What Ordered says of the first step.
Leads(s) ==
  LET h == Head(s)
      t == Tail(s)
  IN  /\ h = "truncate_config" => t # <<>> /\ Head(t) = "write_config"
      /\ h = "truncate_key" => t # <<>> /\ Head(t) = "write_key"
      /\ h = "truncate_wrapped" => t # <<>> /\ Head(t) = "write_wrapped"
      /\ t # <<>> =>
           /\ Head(t) = "write_config" => h = "truncate_config"
           /\ Head(t) = "write_key" => h = "truncate_key"
           /\ Head(t) = "write_wrapped" => h = "truncate_wrapped"
           /\ Head(t) = "remove_key" => h = "write_wrapped"
           /\ Head(t) = "set_wrapped" => h = "remove_key"
      /\ h \in {"make_folders", "truncate_wrapped", "write_wrapped"} =>
           ~In(t, "truncate_key") /\ ~In(t, "write_key")
      /\ h \in {"truncate_config", "write_config"} =>
           \/ ~In(t, "truncate_key") /\ ~In(t, "write_key")
           \/ In(t, "make_folders")
      /\ h \in {"make_folders", "load_policy", "save_policy", "set_min"} => ~In(t, h)
      /\ h = "load_policy" =>
           In(t, "save_policy") /\ ~In(t, "set_members") /\ ~In(t, "set_invite")
      /\ h = "save_policy" => ~In(t, "load_policy") /\ ~In(t, "set_invite")
      /\ h = "set_min" =>
           /\ ~In(t, "load_policy") /\ ~In(t, "save_policy") /\ ~In(t, "set_invite")
           /\ In(t, "write_config")
      /\ h = "set_invite" => ~In(t, "save_policy") /\ ~In(t, "set_min")
      /\ h \in {"set_wrapped", "set_members"} => ~In(t, "set_invite")

\* The indices of a sequence, and what is at them.
LEMMA Unfold ==
  ASSUME NEW s \in Seq(StepNames), s # <<>>
  PROVE  /\ Len(s) \in Nat \ {0} /\ DOMAIN s = 1 .. Len(s)
         /\ Head(s) = s[1] /\ s[1] \in StepNames
         /\ Tail(s) \in Seq(StepNames) /\ Len(Tail(s)) = Len(s) - 1
         /\ DOMAIN Tail(s) = 1 .. Len(s) - 1
         /\ \A i \in 1 .. Len(s) - 1 : Tail(s)[i] = s[i + 1]
         /\ Tail(s) = <<>> <=> Len(s) = 1
<1>1. Len(s) \in Nat \ {0} /\ DOMAIN s = 1 .. Len(s)
  BY EmptySeq, LenProperties
<1>2. Tail(s) \in Seq(StepNames) /\ Len(Tail(s)) = Len(s) - 1
      /\ \A i \in 1 .. Len(Tail(s)) : Tail(s)[i] = s[i + 1]
  BY HeadTailProperties
<1>3. DOMAIN Tail(s) = 1 .. Len(s) - 1
  BY <1>2, LenProperties
<1>4. Head(s) = s[1] /\ s[1] \in StepNames
  BY <1>1, ElementOfSeq
<1>5. ASSUME Tail(s) = <<>> PROVE Len(s) = 1
  <2>1. Len(Tail(s)) = Len(<<>>)
    BY <1>5, Zenon
  <2>2. Len(<<>>) = 0
    OBVIOUS
  <2> QED
    BY <1>1, <1>2, <2>1, <2>2
<1>6. Tail(s) # <<>> => Len(Tail(s)) \in Nat \ {0}
  BY <1>2, EmptySeq
<1> QED
  BY <1>1, <1>2, <1>3, <1>4, <1>5, <1>6

\* A step is left if it is the first one or left after it.
LEMMA InTail ==
  ASSUME NEW s \in Seq(StepNames), s # <<>>, NEW x
  PROVE  /\ In(s, x) <=> Head(s) = x \/ In(Tail(s), x)
         /\ Later(s, 1, x) <=> In(Tail(s), x)
<1>1. Later(s, 1, x) => In(Tail(s), x)
  <2>1. SUFFICES ASSUME NEW j \in DOMAIN s, j > 1, s[j] = x PROVE In(Tail(s), x)
    BY DEF Later
  <2>2. j - 1 \in DOMAIN Tail(s) /\ Tail(s)[j - 1] = x
    BY <2>1, Unfold
  <2> QED
    BY <2>2 DEF In
<1>2. In(Tail(s), x) => Later(s, 1, x)
  <2>1. SUFFICES ASSUME NEW i \in DOMAIN Tail(s), Tail(s)[i] = x PROVE Later(s, 1, x)
    BY DEF In
  <2>2. i + 1 \in DOMAIN s /\ i + 1 > 1 /\ s[i + 1] = x
    BY <2>1, Unfold
  <2> QED
    BY <2>2 DEF Later
<1>3. In(s, x) <=> s[1] = x \/ Later(s, 1, x)
  BY Unfold DEF In, Later
<1> QED
  BY <1>1, <1>2, <1>3, Unfold

\* What comes later in the tail comes later in the sequence.
LEMMA LaterTail ==
  ASSUME NEW s \in Seq(StepNames), s # <<>>, NEW i \in DOMAIN Tail(s), NEW x
  PROVE  Later(Tail(s), i, x) <=> Later(s, i + 1, x)
<1>1. Later(Tail(s), i, x) => Later(s, i + 1, x)
  <2>1. SUFFICES ASSUME NEW j \in DOMAIN Tail(s), j > i, Tail(s)[j] = x
                 PROVE  Later(s, i + 1, x)
    BY DEF Later
  <2>2. j + 1 \in DOMAIN s /\ j + 1 > i + 1 /\ s[j + 1] = x
    BY <2>1, Unfold
  <2> QED
    BY <2>2 DEF Later
<1>2. Later(s, i + 1, x) => Later(Tail(s), i, x)
  <2>1. SUFFICES ASSUME NEW j \in DOMAIN s, j > i + 1, s[j] = x
                 PROVE  Later(Tail(s), i, x)
    BY DEF Later
  <2>2. j - 1 \in DOMAIN Tail(s) /\ j - 1 > i /\ Tail(s)[j - 1] = x
    BY <2>1, Unfold
  <2> QED
    BY <2>2 DEF Later
<1> QED
  BY <1>1, <1>2

LEMMA BeforeTail ==
  ASSUME NEW s \in Seq(StepNames), s # <<>>, NEW X, NEW Y
  PROVE  Before(s, X, Y) <=> Head(s) \notin Y /\ (Head(s) \in X \/ Before(Tail(s), X, Y))
<1>1. Before(s, X, Y) => Head(s) \notin Y /\ (Head(s) \in X \/ Before(Tail(s), X, Y))
  <2>1. SUFFICES ASSUME NEW i \in DOMAIN s, s[i] \in X, \A j \in 1 .. i : s[j] \notin Y,
                        Head(s) \notin X
                 PROVE  Head(s) \notin Y /\ Before(Tail(s), X, Y)
    BY DEF Before
  <2>2. i - 1 \in DOMAIN Tail(s) /\ Tail(s)[i - 1] \in X /\ Head(s) \notin Y
    BY <2>1, Unfold
  <2>3. \A j \in 1 .. i - 1 : Tail(s)[j] \notin Y
    BY <2>1, <2>2, Unfold
  <2> QED
    BY <2>2, <2>3 DEF Before
<1>2. Head(s) \notin Y /\ Head(s) \in X => Before(s, X, Y)
  BY Unfold DEF Before
<1>3. ASSUME Head(s) \notin Y, Before(Tail(s), X, Y) PROVE Before(s, X, Y)
  <2>1. PICK i \in DOMAIN Tail(s) : Tail(s)[i] \in X /\ \A j \in 1 .. i : Tail(s)[j] \notin Y
    BY <1>3 DEF Before
  <2>2. i + 1 \in DOMAIN s /\ s[i + 1] \in X
    BY <2>1, Unfold
  <2>3. ASSUME NEW j \in 1 .. i + 1 PROVE s[j] \notin Y
    <3>1. CASE j = 1
      BY <3>1, <1>3, Unfold
    <3>2. CASE j # 1
      <4>1. j - 1 \in 1 .. i /\ j - 1 \in 1 .. Len(s) - 1 /\ (j - 1) + 1 = j
        BY <3>2, <2>1, Unfold
      <4> QED
        BY <4>1, <2>1, Unfold
    <3> QED
      BY <3>1, <3>2
  <2> QED
    BY <2>2, <2>3 DEF Before
<1> QED
  BY <1>1, <1>2, <1>3

\* Nothing is left of a command that is done.
LEMMA NothingLeft ==
  /\ \A x : ~In(<<>>, x)
  /\ \A X, Y : ~Before(<<>>, X, Y)
  /\ Ordered(<<>>) /\ Protects(<<>>) /\ <<>> \in Seq(StepNames)
  BY DEF In, Before, Ordered, Protects

\* The tail of an ordered plan is ordered.
LEMMA OrderedTail ==
  ASSUME NEW s \in Seq(StepNames), s # <<>>, Ordered(s)
  PROVE  Ordered(Tail(s)) /\ Leads(s)
<1>1. ASSUME NEW i \in DOMAIN Tail(s) PROVE OrderedAt(Tail(s), i)
  <2>1. i \in 1 .. Len(s) - 1 /\ i + 1 \in DOMAIN s /\ Tail(s)[i] = s[i + 1]
        /\ Len(Tail(s)) = Len(s) - 1 /\ Len(s) \in Nat
    BY <1>1, Unfold
  <2>2. i < Len(Tail(s)) <=> i + 1 < Len(s)
    BY <2>1
  <2>3. i < Len(Tail(s)) => Tail(s)[i + 1] = s[(i + 1) + 1]
    BY <2>1, Unfold
  <2>4. OrderedAt(s, i + 1)
    BY <2>1 DEF Ordered
  <2>5. \A x : Later(Tail(s), i, x) <=> Later(s, i + 1, x)
    BY <1>1, LaterTail
  <2>6. /\ Tail(s)[i] = "truncate_config" =>
             i < Len(Tail(s)) /\ Tail(s)[i + 1] = "write_config"
        /\ Tail(s)[i] = "truncate_key" => i < Len(Tail(s)) /\ Tail(s)[i + 1] = "write_key"
        /\ Tail(s)[i] = "truncate_wrapped" =>
             i < Len(Tail(s)) /\ Tail(s)[i + 1] = "write_wrapped"
    BY <2>1, <2>2, <2>3, <2>4 DEF OrderedAt
  <2>7. i < Len(Tail(s)) =>
          /\ Tail(s)[i + 1] = "write_config" => Tail(s)[i] = "truncate_config"
          /\ Tail(s)[i + 1] = "write_key" => Tail(s)[i] = "truncate_key"
          /\ Tail(s)[i + 1] = "write_wrapped" => Tail(s)[i] = "truncate_wrapped"
          /\ Tail(s)[i + 1] = "remove_key" => Tail(s)[i] = "write_wrapped"
          /\ Tail(s)[i + 1] = "set_wrapped" => Tail(s)[i] = "remove_key"
    BY <2>1, <2>2, <2>3, <2>4 DEF OrderedAt
  <2>8. Tail(s)[i] \in {"make_folders", "load_policy", "save_policy", "set_min"} =>
          ~Later(Tail(s), i, Tail(s)[i])
    BY <2>1, <2>4, <2>5 DEF OrderedAt
  <2>9. Tail(s)[i] \in {"truncate_config", "write_config"} =>
          \/ ~Later(Tail(s), i, "truncate_key") /\ ~Later(Tail(s), i, "write_key")
          \/ Later(Tail(s), i, "make_folders")
    BY <2>1, <2>4, <2>5 DEF OrderedAt
  <2>10. /\ Tail(s)[i] \in {"make_folders", "truncate_wrapped", "write_wrapped"} =>
              ~Later(Tail(s), i, "truncate_key") /\ ~Later(Tail(s), i, "write_key")
         /\ Tail(s)[i] = "load_policy" =>
              /\ Later(Tail(s), i, "save_policy")
              /\ ~Later(Tail(s), i, "set_members") /\ ~Later(Tail(s), i, "set_invite")
         /\ Tail(s)[i] = "save_policy" =>
              ~Later(Tail(s), i, "load_policy") /\ ~Later(Tail(s), i, "set_invite")
         /\ Tail(s)[i] = "set_min" =>
              /\ ~Later(Tail(s), i, "load_policy") /\ ~Later(Tail(s), i, "save_policy")
              /\ ~Later(Tail(s), i, "set_invite") /\ Later(Tail(s), i, "write_config")
         /\ Tail(s)[i] = "set_invite" =>
              ~Later(Tail(s), i, "save_policy") /\ ~Later(Tail(s), i, "set_min")
         /\ Tail(s)[i] \in {"set_wrapped", "set_members"} => ~Later(Tail(s), i, "set_invite")
    BY <2>1, <2>4, <2>5 DEF OrderedAt
  <2> QED
    BY <2>6, <2>7, <2>8, <2>9, <2>10 DEF OrderedAt
<1>2. Leads(s)
  <2>1. OrderedAt(s, 1) /\ Head(s) = s[1] /\ Len(s) \in Nat \ {0}
    BY Unfold DEF Ordered
  <2>2. 1 < Len(s) <=> Tail(s) # <<>>
    <3>1. Tail(s) = <<>> <=> Len(s) = 1
      BY Unfold
    <3>2. Len(s) \in Nat \ {0}
      BY Unfold
    <3>3. \A n \in Nat \ {0} : 1 < n <=> ~(n = 1)
      OBVIOUS
    <3> QED
      BY <3>1, <3>2, <3>3, Zenon
  <2>3. Tail(s) # <<>> => Head(Tail(s)) = s[1 + 1]
    BY <2>1, <2>2, Unfold
  <2>4. \A x : Later(s, 1, x) <=> In(Tail(s), x)
    BY InTail
  <2> QED
    BY <2>1, <2>2, <2>3, <2>4 DEF OrderedAt, Leads
<1> QED
  BY <1>1, <1>2 DEF Ordered

LEMMA ProtectsTail ==
  ASSUME NEW s \in Seq(StepNames), s # <<>>, Protects(s)
  PROVE  /\ Protects(Tail(s))
         /\ Head(s) \in {"truncate_key", "write_key"} => In(Tail(s), "remove_key")
         /\ Tail(s) = <<>> => Head(s) = "write_config"
<1>1. Tail(s) # <<>> => Tail(s)[Len(Tail(s))] = "write_config"
  <2>1. Len(Tail(s)) = Len(s) - 1 /\ Len(s) \in Nat /\ (Tail(s) # <<>> => Len(s) - 1 > 0)
    BY Unfold, EmptySeq
  <2> QED
    BY <2>1, Unfold DEF Protects
<1>2. ASSUME NEW i \in DOMAIN Tail(s), Tail(s)[i] \in {"truncate_key", "write_key"}
      PROVE  Later(Tail(s), i, "remove_key")
  <2>1. i + 1 \in DOMAIN s /\ s[i + 1] = Tail(s)[i]
    BY <1>2, Unfold
  <2> QED
    BY <1>2, <2>1, LaterTail DEF Protects
<1>3. Head(s) \in {"truncate_key", "write_key"} => In(Tail(s), "remove_key")
  <2>1. 1 \in DOMAIN s /\ Head(s) = s[1]
    BY Unfold
  <2>2. Head(s) \in {"truncate_key", "write_key"} => Later(s, 1, "remove_key")
    BY <2>1 DEF Protects
  <2> QED
    BY <2>2, InTail
<1>4. Tail(s) = <<>> => Head(s) = "write_config"
  BY Unfold DEF Protects
<1> QED
  BY <1>1, <1>2, <1>3, <1>4 DEF Protects

-----------------------------------------------------------------------------
(* The plans                                                               *)

MakePlans == {CreateSteps(TRUE), CreateSteps(FALSE), JoinSteps}

Todos == {ProtectSteps, PolicySteps, <<"set_members">> \o WriteConfig}

Migrations ==
  {<<>> \o <<>>, <<>> \o WriteConfig, (WriteKey \o WriteConfig) \o <<>>,
   (WriteKey \o WriteConfig) \o WriteConfig}

LEMMA Concat ==
  ASSUME NEW s \in Seq(StepNames), NEW t \in Seq(StepNames)
  PROVE  s \o t \in Seq(StepNames) /\ \A x : In(s \o t, x) <=> In(s, x) \/ In(t, x)
<1>1. /\ s \o t \in Seq(StepNames) /\ Len(s \o t) = Len(s) + Len(t)
      /\ Len(s) \in Nat /\ Len(t) \in Nat
      /\ DOMAIN s = 1 .. Len(s) /\ DOMAIN t = 1 .. Len(t)
      /\ DOMAIN (s \o t) = 1 .. Len(s) + Len(t)
      /\ \A i \in 1 .. Len(s) + Len(t) :
           (s \o t)[i] = IF i <= Len(s) THEN s[i] ELSE t[i - Len(s)]
  BY ConcatProperties, LenProperties
<1>2. ASSUME NEW x, In(s \o t, x) PROVE In(s, x) \/ In(t, x)
  <2>1. PICK i \in 1 .. Len(s) + Len(t) : (s \o t)[i] = x
    BY <1>1, <1>2 DEF In
  <2>2. CASE i <= Len(s)
    BY <1>1, <2>1, <2>2 DEF In
  <2>3. CASE ~(i <= Len(s))
    <3>1. i - Len(s) \in DOMAIN t /\ t[i - Len(s)] = x
      BY <1>1, <2>1, <2>3
    <3> QED
      BY <3>1 DEF In
  <2> QED
    BY <2>2, <2>3
<1>3. ASSUME NEW x, In(s, x) PROVE In(s \o t, x)
  <2>1. PICK i \in 1 .. Len(s) : s[i] = x
    BY <1>1, <1>3 DEF In
  <2>2. i \in DOMAIN (s \o t) /\ (s \o t)[i] = x
    BY <1>1, <2>1
  <2> QED
    BY <2>2 DEF In
<1>4. ASSUME NEW x, In(t, x) PROVE In(s \o t, x)
  <2>1. PICK i \in 1 .. Len(t) : t[i] = x
    BY <1>1, <1>4 DEF In
  <2>2. /\ Len(s) + i \in 1 .. Len(s) + Len(t)
        /\ ~(Len(s) + i <= Len(s)) /\ (Len(s) + i) - Len(s) = i
    BY <1>1, <2>1
  <2>3. (s \o t)[Len(s) + i] = x
    BY <1>1, <2>1, <2>2
  <2> QED
    BY <1>1, <2>2, <2>3 DEF In
<1> QED
  BY <1>1, <1>2, <1>3, <1>4

\* The parts the plans are made of.
LEMMA Parts ==
  /\ {WriteConfig, WriteKey, ProtectSteps, PolicySteps, <<>>, <<"make_folders", "save_policy">>,
      <<"make_folders", "set_invite">>, <<"set_members">>,
      <<"set_members">> \o WriteConfig} \subseteq Seq(StepNames)
  /\ \A x : In(WriteConfig, x) <=> x \in {"truncate_config", "write_config"}
  /\ \A x : In(WriteKey, x) <=> x \in {"truncate_key", "write_key"}
  /\ \A x : In(ProtectSteps, x) <=>
       x \in {"truncate_wrapped", "write_wrapped", "remove_key", "set_wrapped",
              "truncate_config", "write_config"}
  /\ \A x : In(PolicySteps, x) <=>
       x \in {"load_policy", "save_policy", "set_min", "truncate_config", "write_config"}
  /\ \A x : In(<<"set_members">> \o WriteConfig, x) <=>
       x \in {"set_members", "truncate_config", "write_config"}
  /\ \A x : ~In(<<>>, x)
<1>1. {WriteConfig, WriteKey, <<>>, <<"make_folders", "save_policy">>,
       <<"make_folders", "set_invite">>, <<"set_members">>} \subseteq Seq(StepNames)
  BY DEF WriteConfig, WriteKey, StepNames
<1>2. <<"truncate_wrapped", "write_wrapped", "remove_key", "set_wrapped">> \in Seq(StepNames)
      /\ <<"load_policy", "save_policy", "set_min">> \in Seq(StepNames)
  BY DEF StepNames
<1>3. {ProtectSteps, PolicySteps, <<"set_members">> \o WriteConfig} \subseteq Seq(StepNames)
  BY <1>1, <1>2, Concat DEF ProtectSteps, PolicySteps
<1>4. /\ \A x : In(WriteConfig, x) <=> x \in {"truncate_config", "write_config"}
      /\ \A x : In(WriteKey, x) <=> x \in {"truncate_key", "write_key"}
      /\ \A x : ~In(<<>>, x)
  BY DEF In, WriteConfig, WriteKey
<1>5. \A x : In(<<"set_members">>, x) <=> x = "set_members"
  BY DEF In
<1>6. \A x : In(<<"truncate_wrapped", "write_wrapped", "remove_key", "set_wrapped">>, x) <=>
               x \in {"truncate_wrapped", "write_wrapped", "remove_key", "set_wrapped"}
  BY DEF In
<1>7. \A x : In(<<"load_policy", "save_policy", "set_min">>, x) <=>
               x \in {"load_policy", "save_policy", "set_min"}
  BY DEF In
<1>8. \A x : In(ProtectSteps, x) <=>
       x \in {"truncate_wrapped", "write_wrapped", "remove_key", "set_wrapped",
              "truncate_config", "write_config"}
  BY <1>1, <1>2, <1>4, <1>6, Concat DEF ProtectSteps
<1>9. \A x : In(PolicySteps, x) <=>
       x \in {"load_policy", "save_policy", "set_min", "truncate_config", "write_config"}
  BY <1>1, <1>2, <1>4, <1>7, Concat DEF PolicySteps
<1>10. \A x : In(<<"set_members">> \o WriteConfig, x) <=>
       x \in {"set_members", "truncate_config", "write_config"}
  BY <1>1, <1>4, <1>5, Concat
<1> QED
  BY <1>1, <1>3, <1>4, <1>8, <1>9, <1>10

LEMMA MakePlansOrdered ==
  ASSUME NEW s \in MakePlans
  PROVE  /\ Ordered(s) /\ s \in Seq(StepNames) /\ s # <<>>
         /\ Head(s) = "truncate_config" /\ Before(s, {"write_config"}, {"make_folders"})
<1>1. Ordered(CreateSteps(TRUE))
  BY DEF CreateSteps, WriteConfig, WriteKey, ProtectSteps, Ordered, OrderedAt, Later
<1>2. Ordered(CreateSteps(FALSE))
  BY DEF CreateSteps, WriteConfig, WriteKey, Ordered, OrderedAt, Later
<1>3. Ordered(JoinSteps)
  BY DEF JoinSteps, WriteConfig, WriteKey, Ordered, OrderedAt, Later
<1>4. s \in Seq(StepNames)
  <2>1. ASSUME NEW u \in Seq(StepNames), NEW v \in Seq(StepNames) PROVE u \o v \in Seq(StepNames)
    BY Concat
  <2>2. /\ WriteConfig \in Seq(StepNames) /\ WriteKey \in Seq(StepNames)
        /\ ProtectSteps \in Seq(StepNames) /\ <<>> \in Seq(StepNames)
        /\ <<"make_folders", "save_policy">> \in Seq(StepNames)
        /\ <<"make_folders", "set_invite">> \in Seq(StepNames)
    BY Parts
  <2>3. WriteConfig \o WriteKey \in Seq(StepNames)
    BY <2>1, <2>2
  <2>4. WriteConfig \o WriteKey \o <<"make_folders", "save_policy">> \in Seq(StepNames)
    BY <2>1, <2>2, <2>3
  <2>5. WriteConfig \o WriteKey \o <<"make_folders", "set_invite">> \in Seq(StepNames)
    BY <2>1, <2>2, <2>3
  <2>6. JoinSteps \in Seq(StepNames)
    BY <2>1, <2>2, <2>5 DEF JoinSteps
  <2>7. CreateSteps(TRUE) \in Seq(StepNames)
    BY <2>1, <2>2, <2>4 DEF CreateSteps
  <2>8. CreateSteps(FALSE) \in Seq(StepNames)
    BY <2>1, <2>2, <2>4 DEF CreateSteps
  <2> QED
    BY <2>6, <2>7, <2>8 DEF MakePlans
<1>5. s # <<>> /\ Head(s) = "truncate_config"
  BY DEF MakePlans, CreateSteps, JoinSteps, WriteConfig, WriteKey, ProtectSteps
<1>6. Before(s, {"write_config"}, {"make_folders"})
  <2>1. 2 \in DOMAIN s /\ s[1] = "truncate_config" /\ s[2] = "write_config"
    BY DEF MakePlans, CreateSteps, JoinSteps, WriteConfig, WriteKey, ProtectSteps
  <2> QED
    BY <2>1 DEF Before
<1> QED
  BY <1>1, <1>2, <1>3, <1>4, <1>5, <1>6 DEF MakePlans

LEMMA OpenPlansOrdered ==
  ASSUME NEW m \in Migrations, NEW s \in Todos
  PROVE  Ordered(m \o s)
<1>1. Ordered((<<>> \o <<>>) \o ProtectSteps)
  BY SMTT(30) DEF WriteConfig, ProtectSteps, Ordered, OrderedAt, Later
<1>2. Ordered((<<>> \o <<>>) \o PolicySteps)
  BY SMTT(30) DEF WriteConfig, PolicySteps, Ordered, OrderedAt, Later
<1>3. Ordered((<<>> \o <<>>) \o (<<"set_members">> \o WriteConfig))
  BY SMTT(30) DEF WriteConfig, Ordered, OrderedAt, Later
<1>4. ASSUME NEW p, p = (<<>> \o WriteConfig) \o ProtectSteps
      PROVE  Ordered(p)
  <2>1. /\ DOMAIN p = 1 .. 8 /\ Len(p) = 8
        /\ p[1] = "truncate_config" /\ p[2] = "write_config" /\ p[3] = "truncate_wrapped"
        /\ p[4] = "write_wrapped" /\ p[5] = "remove_key" /\ p[6] = "set_wrapped"
        /\ p[7] = "truncate_config" /\ p[8] = "write_config"
    BY <1>4 DEF ProtectSteps, WriteConfig
  <2> QED
    BY <2>1, SMTT(60) DEF Ordered, OrderedAt, Later
<1>5. ASSUME NEW p, p = (<<>> \o WriteConfig) \o PolicySteps
      PROVE  Ordered(p)
  <2>1. /\ DOMAIN p = 1 .. 7 /\ Len(p) = 7
        /\ p[1] = "truncate_config" /\ p[2] = "write_config" /\ p[3] = "load_policy"
        /\ p[4] = "save_policy" /\ p[5] = "set_min" /\ p[6] = "truncate_config"
        /\ p[7] = "write_config"
    BY <1>5 DEF PolicySteps, WriteConfig
  <2> QED
    BY <2>1, SMTT(60) DEF Ordered, OrderedAt, Later
<1>6. ASSUME NEW p, p = (<<>> \o WriteConfig) \o (<<"set_members">> \o WriteConfig)
      PROVE  Ordered(p)
  <2>1. /\ DOMAIN p = 1 .. 5 /\ Len(p) = 5
        /\ p[1] = "truncate_config" /\ p[2] = "write_config" /\ p[3] = "set_members"
        /\ p[4] = "truncate_config" /\ p[5] = "write_config"
    BY <1>6 DEF WriteConfig
  <2> QED
    BY <2>1, SMTT(60) DEF Ordered, OrderedAt, Later
<1>7. ASSUME NEW p, p = ((WriteKey \o WriteConfig) \o <<>>) \o ProtectSteps
      PROVE  Ordered(p)
  <2>1. /\ DOMAIN p = 1 .. 10 /\ Len(p) = 10
        /\ p[1] = "truncate_key" /\ p[2] = "write_key" /\ p[3] = "truncate_config"
        /\ p[4] = "write_config" /\ p[5] = "truncate_wrapped" /\ p[6] = "write_wrapped"
        /\ p[7] = "remove_key" /\ p[8] = "set_wrapped" /\ p[9] = "truncate_config"
        /\ p[10] = "write_config"
    BY <1>7 DEF WriteKey, ProtectSteps, WriteConfig
  <2> QED
    BY <2>1, SMTT(60) DEF Ordered, OrderedAt, Later
<1>8. ASSUME NEW p, p = ((WriteKey \o WriteConfig) \o <<>>) \o PolicySteps
      PROVE  Ordered(p)
  <2>1. /\ DOMAIN p = 1 .. 9 /\ Len(p) = 9
        /\ p[1] = "truncate_key" /\ p[2] = "write_key" /\ p[3] = "truncate_config"
        /\ p[4] = "write_config" /\ p[5] = "load_policy" /\ p[6] = "save_policy"
        /\ p[7] = "set_min" /\ p[8] = "truncate_config" /\ p[9] = "write_config"
    BY <1>8 DEF WriteKey, PolicySteps, WriteConfig
  <2> QED
    BY <2>1, SMTT(60) DEF Ordered, OrderedAt, Later
<1>9. ASSUME NEW p, p = ((WriteKey \o WriteConfig) \o <<>>) \o (<<"set_members">> \o WriteConfig)
      PROVE  Ordered(p)
  <2>1. /\ DOMAIN p = 1 .. 7 /\ Len(p) = 7
        /\ p[1] = "truncate_key" /\ p[2] = "write_key" /\ p[3] = "truncate_config"
        /\ p[4] = "write_config" /\ p[5] = "set_members" /\ p[6] = "truncate_config"
        /\ p[7] = "write_config"
    BY <1>9 DEF WriteKey, WriteConfig
  <2> QED
    BY <2>1, SMTT(60) DEF Ordered, OrderedAt, Later
<1>10. ASSUME NEW p, p = ((WriteKey \o WriteConfig) \o WriteConfig) \o ProtectSteps
      PROVE  Ordered(p)
  <2>1. /\ DOMAIN p = 1 .. 12 /\ Len(p) = 12
        /\ p[1] = "truncate_key" /\ p[2] = "write_key" /\ p[3] = "truncate_config"
        /\ p[4] = "write_config" /\ p[5] = "truncate_config" /\ p[6] = "write_config"
        /\ p[7] = "truncate_wrapped" /\ p[8] = "write_wrapped" /\ p[9] = "remove_key"
        /\ p[10] = "set_wrapped" /\ p[11] = "truncate_config" /\ p[12] = "write_config"
    BY <1>10 DEF WriteKey, ProtectSteps, WriteConfig
  <2> QED
    BY <2>1, SMTT(60) DEF Ordered, OrderedAt, Later
<1>11. ASSUME NEW p, p = ((WriteKey \o WriteConfig) \o WriteConfig) \o PolicySteps
      PROVE  Ordered(p)
  <2>1. /\ DOMAIN p = 1 .. 11 /\ Len(p) = 11
        /\ p[1] = "truncate_key" /\ p[2] = "write_key" /\ p[3] = "truncate_config"
        /\ p[4] = "write_config" /\ p[5] = "truncate_config" /\ p[6] = "write_config"
        /\ p[7] = "load_policy" /\ p[8] = "save_policy" /\ p[9] = "set_min"
        /\ p[10] = "truncate_config" /\ p[11] = "write_config"
    BY <1>11 DEF WriteKey, PolicySteps, WriteConfig
  <2> QED
    BY <2>1, SMTT(60) DEF Ordered, OrderedAt, Later
<1>12. ASSUME NEW p, p = ((WriteKey \o WriteConfig) \o WriteConfig) \o (<<"set_members">> \o WriteConfig)
      PROVE  Ordered(p)
  <2>1. /\ DOMAIN p = 1 .. 9 /\ Len(p) = 9
        /\ p[1] = "truncate_key" /\ p[2] = "write_key" /\ p[3] = "truncate_config"
        /\ p[4] = "write_config" /\ p[5] = "truncate_config" /\ p[6] = "write_config"
        /\ p[7] = "set_members" /\ p[8] = "truncate_config" /\ p[9] = "write_config"
    BY <1>12 DEF WriteKey, WriteConfig
  <2> QED
    BY <2>1, SMTT(60) DEF Ordered, OrderedAt, Later
<1> QED
  BY <1>1, <1>2, <1>3, <1>4, <1>5, <1>6, <1>7, <1>8, <1>9, <1>10, <1>11, <1>12
     DEF Migrations, Todos

LEMMA OpenPlans ==
  ASSUME NEW m \in Migrations, NEW t \in Todos
  PROVE  /\ m \o t \in Seq(StepNames) /\ m \o t # <<>> /\ Ordered(m \o t)
         /\ Head(m \o t) \in {"truncate_config", "truncate_key", "truncate_wrapped",
                              "load_policy", "set_members"}
         /\ \A x : In(m \o t, x) <=> In(m, x) \/ In(t, x)
         /\ t = ProtectSteps => Protects(m \o t)
         /\ m = <<>> \o <<>> =>
              Before(m \o t, {"set_wrapped", "set_members", "set_min"}, {"write_config"})
         /\ m # <<>> \o <<>> => Before(m \o t, {"write_config"}, {"truncate_wrapped"})
<1>1. m \in Seq(StepNames) /\ t \in Seq(StepNames)
  <2>1. ASSUME NEW u \in Seq(StepNames), NEW v \in Seq(StepNames) PROVE u \o v \in Seq(StepNames)
    BY Concat
  <2>2. /\ WriteConfig \in Seq(StepNames) /\ WriteKey \in Seq(StepNames)
        /\ <<>> \in Seq(StepNames) /\ t \in Seq(StepNames)
    BY Parts DEF Todos
  <2>3. WriteKey \o WriteConfig \in Seq(StepNames)
    BY <2>1, <2>2
  <2>4. /\ <<>> \o <<>> \in Seq(StepNames) /\ <<>> \o WriteConfig \in Seq(StepNames)
        /\ (WriteKey \o WriteConfig) \o <<>> \in Seq(StepNames)
        /\ (WriteKey \o WriteConfig) \o WriteConfig \in Seq(StepNames)
    BY <2>1, <2>2, <2>3
  <2> QED
    BY <2>2, <2>4 DEF Migrations
<1>2. m \o t \in Seq(StepNames) /\ \A x : In(m \o t, x) <=> In(m, x) \/ In(t, x)
  BY <1>1, Concat
<1>3. Ordered(m \o t)
  BY OpenPlansOrdered
<1>4. m \o t # <<>>
  <2>1. In(t, "write_config")
    BY Parts DEF Todos
  <2> QED
    BY <1>2, <2>1, NothingLeft
<1>5. Head(m \o t) \in {"truncate_config", "truncate_key", "truncate_wrapped",
                        "load_policy", "set_members"}
  BY DEF Migrations, Todos, WriteConfig, WriteKey, ProtectSteps, PolicySteps
<1>6. t = ProtectSteps => Protects(m \o t)
  <2>1. Protects((<<>> \o <<>>) \o ProtectSteps)
    BY DEF Protects, Later, ProtectSteps, WriteConfig
  <2>2. Protects((<<>> \o WriteConfig) \o ProtectSteps)
    BY DEF Protects, Later, ProtectSteps, WriteConfig
  <2>3. ASSUME NEW p, p = ((WriteKey \o WriteConfig) \o <<>>) \o ProtectSteps PROVE Protects(p)
    <3>1. /\ DOMAIN p = 1 .. 10 /\ Len(p) = 10
          /\ p[1] = "truncate_key" /\ p[2] = "write_key" /\ p[3] = "truncate_config"
          /\ p[4] = "write_config" /\ p[5] = "truncate_wrapped" /\ p[6] = "write_wrapped"
          /\ p[7] = "remove_key" /\ p[8] = "set_wrapped" /\ p[9] = "truncate_config"
          /\ p[10] = "write_config"
      BY <2>3 DEF ProtectSteps, WriteConfig, WriteKey
    <3>2. /\ \A i \in DOMAIN p : p[i] \in {"truncate_key", "write_key"} => i < 5
          /\ \E j \in DOMAIN p : j >= 5 /\ p[j] = "remove_key"
      BY <3>1
    <3> QED
      BY <3>1, <3>2 DEF Protects, Later
  <2>4. ASSUME NEW p, p = ((WriteKey \o WriteConfig) \o WriteConfig) \o ProtectSteps PROVE Protects(p)
    <3>1. /\ DOMAIN p = 1 .. 12 /\ Len(p) = 12
          /\ p[1] = "truncate_key" /\ p[2] = "write_key" /\ p[3] = "truncate_config"
          /\ p[4] = "write_config" /\ p[5] = "truncate_config" /\ p[6] = "write_config"
          /\ p[7] = "truncate_wrapped" /\ p[8] = "write_wrapped" /\ p[9] = "remove_key"
          /\ p[10] = "set_wrapped" /\ p[11] = "truncate_config" /\ p[12] = "write_config"
      BY <2>4 DEF ProtectSteps, WriteConfig, WriteKey
    <3>2. /\ \A i \in DOMAIN p : p[i] \in {"truncate_key", "write_key"} => i < 5
          /\ \E j \in DOMAIN p : j >= 5 /\ p[j] = "remove_key"
      BY <3>1
    <3> QED
      BY <3>1, <3>2 DEF Protects, Later
  <2> QED
    BY <2>1, <2>2, <2>3, <2>4 DEF Migrations
<1>7. m = <<>> \o <<>> =>
        Before(m \o t, {"set_wrapped", "set_members", "set_min"}, {"write_config"})
  <2>1. Before((<<>> \o <<>>) \o ProtectSteps, {"set_wrapped", "set_members", "set_min"},
               {"write_config"})
    BY DEF Before, ProtectSteps, WriteConfig
  <2>2. Before((<<>> \o <<>>) \o PolicySteps, {"set_wrapped", "set_members", "set_min"},
               {"write_config"})
    BY DEF Before, PolicySteps, WriteConfig
  <2>3. Before((<<>> \o <<>>) \o (<<"set_members">> \o WriteConfig),
               {"set_wrapped", "set_members", "set_min"}, {"write_config"})
    BY DEF Before, WriteConfig
  <2> QED
    BY <2>1, <2>2, <2>3 DEF Todos
<1>8. m # <<>> \o <<>> => Before(m \o t, {"write_config"}, {"truncate_wrapped"})
  <2>1. m = <<>> \o WriteConfig => Before(m \o t, {"write_config"}, {"truncate_wrapped"})
    BY DEF Before, Todos, PolicySteps, ProtectSteps, WriteConfig
  <2>2. ASSUME m = (WriteKey \o WriteConfig) \o <<>>
        PROVE  Before(m \o t, {"write_config"}, {"truncate_wrapped"})
    <3>1. ASSUME NEW p, p = ((WriteKey \o WriteConfig) \o <<>>) \o t
          PROVE  /\ 4 \in DOMAIN p /\ p[1] = "truncate_key" /\ p[2] = "write_key"
                 /\ p[3] = "truncate_config" /\ p[4] = "write_config"
      BY <3>1 DEF Todos, PolicySteps, ProtectSteps, WriteConfig, WriteKey
    <3>2. ASSUME NEW p, p = ((WriteKey \o WriteConfig) \o <<>>) \o t
          PROVE  Before(p, {"write_config"}, {"truncate_wrapped"})
      <4>1. /\ 4 \in DOMAIN p /\ p[1] = "truncate_key" /\ p[2] = "write_key"
            /\ p[3] = "truncate_config" /\ p[4] = "write_config"
        BY <3>1, <3>2
      <4>2. \A j \in 1 .. 4 : p[j] # "truncate_wrapped"
        BY <4>1
      <4> QED
        BY <4>1, <4>2 DEF Before
    <3> QED
      BY <2>2, <3>2
  <2>3. ASSUME m = (WriteKey \o WriteConfig) \o WriteConfig
        PROVE  Before(m \o t, {"write_config"}, {"truncate_wrapped"})
    <3>1. ASSUME NEW p, p = ((WriteKey \o WriteConfig) \o WriteConfig) \o t
          PROVE  /\ 4 \in DOMAIN p /\ p[1] = "truncate_key" /\ p[2] = "write_key"
                 /\ p[3] = "truncate_config" /\ p[4] = "write_config"
      BY <3>1 DEF Todos, PolicySteps, ProtectSteps, WriteConfig, WriteKey
    <3>2. ASSUME NEW p, p = ((WriteKey \o WriteConfig) \o WriteConfig) \o t
          PROVE  Before(p, {"write_config"}, {"truncate_wrapped"})
      <4>1. /\ 4 \in DOMAIN p /\ p[1] = "truncate_key" /\ p[2] = "write_key"
            /\ p[3] = "truncate_config" /\ p[4] = "write_config"
        BY <3>1, <3>2
      <4>2. \A j \in 1 .. 4 : p[j] # "truncate_wrapped"
        BY <4>1
      <4> QED
        BY <4>1, <4>2 DEF Before
    <3> QED
      BY <2>3, <3>2
  <2> QED
    BY <2>1, <2>2, <2>3 DEF Migrations
<1> QED
  BY <1>2, <1>3, <1>4, <1>5, <1>6, <1>7, <1>8

LEMMA InMigration ==
  /\ \A x : ~In(<<>> \o <<>>, x)
  /\ \A x : In(<<>> \o WriteConfig, x) <=> x \in {"truncate_config", "write_config"}
  /\ \A m \in {(WriteKey \o WriteConfig) \o <<>>, (WriteKey \o WriteConfig) \o WriteConfig} :
       \A x : In(m, x) <=>
         x \in {"truncate_key", "write_key", "truncate_config", "write_config"}
<1>1. /\ WriteConfig \in Seq(StepNames) /\ WriteKey \in Seq(StepNames)
      /\ <<>> \in Seq(StepNames)
  BY Parts
<1>2. \A x : ~In(<<>>, x)
  BY NothingLeft
<1>3. \A x : In(WriteConfig, x) <=> x \in {"truncate_config", "write_config"}
  BY Parts
<1>4. \A x : In(WriteKey, x) <=> x \in {"truncate_key", "write_key"}
  BY Parts
<1>5. \A x : ~In(<<>> \o <<>>, x)
  BY <1>1, <1>2, Concat
<1>6. \A x : In(<<>> \o WriteConfig, x) <=> x \in {"truncate_config", "write_config"}
  BY <1>1, <1>2, <1>3, Concat
<1>7. /\ WriteKey \o WriteConfig \in Seq(StepNames)
      /\ \A x : In(WriteKey \o WriteConfig, x) <=>
           x \in {"truncate_key", "write_key", "truncate_config", "write_config"}
  BY <1>1, <1>3, <1>4, Concat
<1>8. \A x : In((WriteKey \o WriteConfig) \o <<>>, x) <=>
           x \in {"truncate_key", "write_key", "truncate_config", "write_config"}
  BY <1>1, <1>2, <1>7, Concat
<1>9. \A x : In((WriteKey \o WriteConfig) \o WriteConfig, x) <=>
           x \in {"truncate_key", "write_key", "truncate_config", "write_config"}
  BY <1>1, <1>3, <1>7, Concat
<1> QED
  BY <1>5, <1>6, <1>8, <1>9

\* What a plan that makes a vault is made of.
LEMMA InMakePlan ==
  /\ \A x : In(CreateSteps(FALSE), x) <=>
       x \in {"truncate_config", "write_config", "truncate_key", "write_key",
              "make_folders", "save_policy"}
  /\ \A x : In(CreateSteps(TRUE), x) <=>
       x \in {"truncate_config", "write_config", "truncate_key", "write_key",
              "make_folders", "save_policy", "truncate_wrapped", "write_wrapped",
              "remove_key", "set_wrapped"}
  /\ \A x : In(JoinSteps, x) <=>
       x \in {"truncate_config", "write_config", "truncate_key", "write_key",
              "make_folders", "set_invite"}
  /\ Protects(CreateSteps(TRUE))
<1>1. /\ WriteConfig \in Seq(StepNames) /\ WriteKey \in Seq(StepNames)
      /\ <<>> \in Seq(StepNames) /\ ProtectSteps \in Seq(StepNames)
      /\ <<"make_folders", "save_policy">> \in Seq(StepNames)
      /\ <<"make_folders", "set_invite">> \in Seq(StepNames)
  BY Parts
<1>2. \A x : ~In(<<>>, x)
  BY NothingLeft
<1>3. /\ \A x : In(WriteConfig, x) <=> x \in {"truncate_config", "write_config"}
      /\ \A x : In(WriteKey, x) <=> x \in {"truncate_key", "write_key"}
      /\ \A x : In(ProtectSteps, x) <=>
           x \in {"truncate_wrapped", "write_wrapped", "remove_key", "set_wrapped",
                  "truncate_config", "write_config"}
  BY Parts
<1>4. /\ \A x : In(<<"make_folders", "save_policy">>, x) <=>
                  x \in {"make_folders", "save_policy"}
      /\ \A x : In(<<"make_folders", "set_invite">>, x) <=>
                  x \in {"make_folders", "set_invite"}
  BY DEF In
<1>5. /\ WriteConfig \o WriteKey \in Seq(StepNames)
      /\ \A x : In(WriteConfig \o WriteKey, x) <=>
           x \in {"truncate_config", "write_config", "truncate_key", "write_key"}
  BY <1>1, <1>3, Concat
<1>6. /\ WriteConfig \o WriteKey \o <<"make_folders", "save_policy">> \in Seq(StepNames)
      /\ \A x : In(WriteConfig \o WriteKey \o <<"make_folders", "save_policy">>, x) <=>
           x \in {"truncate_config", "write_config", "truncate_key", "write_key",
                  "make_folders", "save_policy"}
  <2> DEFINE u == WriteConfig \o WriteKey
             v == <<"make_folders", "save_policy">>
  <2>1. u \in Seq(StepNames) /\ v \in Seq(StepNames)
    BY <1>1, <1>5
  <2>2. u \o v \in Seq(StepNames) /\ \A x : In(u \o v, x) <=> In(u, x) \/ In(v, x)
    <3> HIDE DEF u, v
    <3> QED
      BY <2>1, Concat
  <2>3. \A x : In(v, x) <=> x \in {"make_folders", "save_policy"}
    BY <1>4
  <2>4. \A x : In(u, x) <=>
          x \in {"truncate_config", "write_config", "truncate_key", "write_key"}
    BY <1>5
  <2> HIDE DEF u, v
  <2>5. \A x : In(u \o v, x) <=>
           x \in {"truncate_config", "write_config", "truncate_key", "write_key",
                  "make_folders", "save_policy"}
    BY <2>2, <2>3, <2>4
  <2> QED
    BY <2>2, <2>5 DEF u, v
<1>7. /\ WriteConfig \o WriteKey \o <<"make_folders", "set_invite">> \in Seq(StepNames)
      /\ \A x : In(WriteConfig \o WriteKey \o <<"make_folders", "set_invite">>, x) <=>
           x \in {"truncate_config", "write_config", "truncate_key", "write_key",
                  "make_folders", "set_invite"}
  <2> DEFINE u == WriteConfig \o WriteKey
             v == <<"make_folders", "set_invite">>
  <2>1. u \in Seq(StepNames) /\ v \in Seq(StepNames)
    BY <1>1, <1>5
  <2>2. u \o v \in Seq(StepNames) /\ \A x : In(u \o v, x) <=> In(u, x) \/ In(v, x)
    <3> HIDE DEF u, v
    <3> QED
      BY <2>1, Concat
  <2>3. \A x : In(v, x) <=> x \in {"make_folders", "set_invite"}
    BY <1>4
  <2>4. \A x : In(u, x) <=>
          x \in {"truncate_config", "write_config", "truncate_key", "write_key"}
    BY <1>5
  <2> HIDE DEF u, v
  <2>5. \A x : In(u \o v, x) <=>
           x \in {"truncate_config", "write_config", "truncate_key", "write_key",
                  "make_folders", "set_invite"}
    BY <2>2, <2>3, <2>4
  <2> QED
    BY <2>2, <2>5 DEF u, v
<1>8. \A x : In(CreateSteps(FALSE), x) <=>
       x \in {"truncate_config", "write_config", "truncate_key", "write_key",
              "make_folders", "save_policy"}
  BY <1>1, <1>2, <1>6, Concat DEF CreateSteps
<1>9. \A x : In(CreateSteps(TRUE), x) <=>
       x \in {"truncate_config", "write_config", "truncate_key", "write_key",
              "make_folders", "save_policy", "truncate_wrapped", "write_wrapped",
              "remove_key", "set_wrapped"}
  BY <1>1, <1>3, <1>6, Concat DEF CreateSteps
<1>10. \A x : In(JoinSteps, x) <=>
       x \in {"truncate_config", "write_config", "truncate_key", "write_key",
              "make_folders", "set_invite"}
  BY <1>1, <1>3, <1>7, Concat DEF JoinSteps
<1>11. ASSUME NEW p, p = CreateSteps(TRUE) PROVE Protects(p)
  <2>1. /\ DOMAIN p = 1 .. 12 /\ Len(p) = 12
        /\ p[1] = "truncate_config" /\ p[2] = "write_config" /\ p[3] = "truncate_key"
        /\ p[4] = "write_key" /\ p[5] = "make_folders" /\ p[6] = "save_policy"
        /\ p[7] = "truncate_wrapped" /\ p[8] = "write_wrapped" /\ p[9] = "remove_key"
        /\ p[10] = "set_wrapped" /\ p[11] = "truncate_config" /\ p[12] = "write_config"
    BY <1>11 DEF CreateSteps, ProtectSteps, WriteConfig, WriteKey
  <2>2. /\ \A i \in DOMAIN p : p[i] \in {"truncate_key", "write_key"} => i < 5
        /\ \E j \in DOMAIN p : j >= 5 /\ p[j] = "remove_key"
    BY <2>1
  <2> QED
    BY <2>1, <2>2 DEF Protects, Later
<1> QED
  BY <1>8, <1>9, <1>10, <1>11

-----------------------------------------------------------------------------
(* Turns                                                                   *)

\* c goes on with rest, its config then cfg and what it wants w, or is done;
\* the others stay where they are.
Turned(c, rest, cfg, w) ==
  /\ Running(c) /\ steps'[c] = rest
  /\ rest = <<>> => config'[c] = Blank /\ pass'[c] = NoFileYet /\ wanted'[c] = 0
  /\ rest # <<>> => config'[c] = cfg /\ pass'[c] = pass[c] /\ wanted'[c] = w
  /\ \A d \in Clients \ {c} :
       /\ steps'[d] = steps[d] /\ config'[d] = config[d]
       /\ pass'[d] = pass[d] /\ wanted'[d] = wanted[d]

\* c starts plan, the others stay where they are.
Launched(c, plan) ==
  /\ ~Running(c) /\ steps'[c] = plan
  /\ \A d \in Clients \ {c} :
       /\ steps'[d] = steps[d] /\ config'[d] = config[d]
       /\ pass'[d] = pass[d] /\ wanted'[d] = wanted[d]
  /\ together' = (together \/ ~Quiescent)

LEMMA BlankType == Blank \in Config
  BY ConfigAssumption DEF Blank, Config, VaultIds

LEMMA Proceeding ==
  ASSUME Locals, NEW c \in Clients, NEW rest \in Seq(StepNames), NEW cfg \in Config,
         Running(c), Proceed(c, rest, cfg)
  PROVE  Locals' /\ Turned(c, rest, cfg, wanted[c])
<1>1. CASE rest = <<>>
  <2>1. /\ steps' = [steps EXCEPT ![c] = rest] /\ config' = [config EXCEPT ![c] = Blank]
        /\ pass' = [pass EXCEPT ![c] = NoFileYet] /\ wanted' = [wanted EXCEPT ![c] = 0]
        /\ home' = [home EXCEPT ![c] = FALSE]
    BY <1>1 DEF Proceed
  <2>2. Locals'
    BY <2>1, BlankType DEF Locals
  <2> QED
    BY <1>1, <2>1, <2>2 DEF Locals, Turned
<1>2. CASE rest # <<>>
  <2>1. /\ steps' = [steps EXCEPT ![c] = rest] /\ config' = [config EXCEPT ![c] = cfg]
        /\ pass' = pass /\ wanted' = wanted /\ home' = home
    BY <1>2 DEF Proceed
  <2>2. Locals'
    BY <2>1 DEF Locals
  <2> QED
    BY <1>2, <2>1, <2>2 DEF Locals, Turned
<1> QED
  BY <1>1, <1>2

\* What is left, after a turn that takes the first step.
LEMMA TurnDue ==
  ASSUME Locals, CPlanInv, NEW c \in Clients, NEW cfg, NEW w,
         Turned(c, Tail(steps[c]), cfg, w)
  PROVE  /\ Leads(steps[c]) /\ steps[c] # <<>>
         /\ \A x : Due(c, x) <=> Head(steps[c]) = x \/ Due(c, x)'
         /\ \A x : In(Tail(steps[c]), x) <=> Due(c, x)'
         /\ \A d \in Clients \ {c} : \A x : (Due(d, x) <=> Due(d, x)') /\ (Does(d, x) <=> Does(d, x)')
         /\ \A d \in Clients \ {c} : Running(d) <=> Running(d)'
         /\ Running(c)' <=> Tail(steps[c]) # <<>>
         /\ \A x : Does(c, x)' <=> Tail(steps[c]) # <<>> /\ Head(Tail(steps[c])) = x
<1>1. steps[c] # <<>> /\ steps[c] \in Seq(StepNames) /\ Ordered(steps[c])
  BY DEF Locals, CPlanInv, Turned, Running
<1>2. steps'[c] = Tail(steps[c]) /\ \A d \in Clients \ {c} : steps'[d] = steps[d]
  BY DEF Turned
<1> QED
  BY <1>1, <1>2, InTail, OrderedTail DEF Due, Does, Running

\* Nothing is left of a command that returns or is killed.
LEMMA TurnDone ==
  ASSUME NEW c \in Clients, NEW cfg, NEW w, Turned(c, <<>>, cfg, w)
  PROVE  /\ ~Running(c)' /\ \A x : ~Due(c, x)' /\ ~Does(c, x)'
         /\ \A d \in Clients \ {c} : \A x : (Due(d, x) <=> Due(d, x)') /\ (Does(d, x) <=> Does(d, x)')
         /\ \A d \in Clients \ {c} : Running(d) <=> Running(d)'
  BY NothingLeft DEF Due, Does, Running, Turned

LEMMA DoesIsDue ==
  ASSUME Locals, NEW c \in Clients, NEW x, Does(c, x)
  PROVE  Due(c, x)
<1>1. steps[c] \in Seq(StepNames) /\ steps[c] # <<>> /\ Head(steps[c]) = x
  BY DEF Does, Running, Locals
<1> QED
  BY <1>1, InTail DEF Due

LEMMA DueRuns ==
  ASSUME NEW c \in Clients, NEW x, Due(c, x)
  PROVE  Running(c)
  BY NothingLeft DEF Due, Running

-----------------------------------------------------------------------------
(* The actions as turns                                                    *)

LEMMA BumpType ==
  ASSUME Locals, NEW c \in Clients, NEW cfg \in Config
  PROVE  /\ Bump(c, cfg) \in Config
         /\ Bump(c, cfg).id = cfg.id /\ Bump(c, cfg).seq = cfg.seq + 1
         /\ Bump(c, cfg).min = cfg.min /\ Bump(c, cfg).wrapped = cfg.wrapped
         /\ Bump(c, cfg).embedded = cfg.embedded
         /\ \/ Bump(c, cfg).signature = Cover(Bump(c, cfg))
            \/ Bump(c, cfg).signature = cfg.signature
<1> DEFINE up == [cfg EXCEPT !.seq = @ + 1]
<1>1. up \in Config /\ up.id = cfg.id /\ up.seq = cfg.seq + 1 /\ up.min = cfg.min
      /\ up.wrapped = cfg.wrapped /\ up.embedded = cfg.embedded
      /\ up.signature = cfg.signature
  BY DEF Config
<1> HIDE DEF up
<1>2. Cover(up) \in Covered
  BY <1>1 DEF Cover, Covered, Config
<1> DEFINE signed == [up EXCEPT !.signature = Cover(up)]
<1>3. signed \in Config /\ signed.id = up.id /\ signed.seq = up.seq /\ signed.min = up.min
      /\ signed.wrapped = up.wrapped /\ signed.embedded = up.embedded
      /\ signed.members = up.members /\ signed.signature = Cover(up)
  BY <1>1, <1>2 DEF Config
<1> HIDE DEF signed
<1>4. signed.signature = Cover(signed)
  BY <1>3 DEF Cover
<1>5. Bump(c, cfg) = IF home[c] THEN signed ELSE up
  BY DEF Bump, Signed, up, signed
<1> QED
  BY <1>1, <1>3, <1>4, <1>5

Plain(c) == TruncateFile(c) \/ FillConfig(c) \/ FillKey(c) \/ FillWrapped(c)
              \/ RemoveKey(c) \/ MakeFolders(c) \/ SavePolicy(c)

LEMMA PlainTurn ==
  ASSUME Locals, NEW c \in Clients, Plain(c)
  PROVE  Locals' /\ Turned(c, Tail(steps[c]), config[c], wanted[c])
<1>1. Running(c) /\ Proceed(c, Tail(steps[c]), config[c])
  BY DEF Plain, TruncateFile, FillConfig, FillKey, FillWrapped, RemoveKey, MakeFolders,
         SavePolicy, Rest, Does
<1>2. config[c] \in Config /\ steps[c] \in Seq(StepNames) /\ steps[c] # <<>>
  BY <1>1 DEF Locals, Running
<1>3. Tail(steps[c]) \in Seq(StepNames)
  BY <1>2, Unfold
<1> QED
  BY <1>1, <1>2, <1>3, Proceeding

Wrap(c) == Bump(c, [config[c] EXCEPT !.wrapped = TRUE, !.embedded = FALSE])
Enrol(c) == Bump(c, [config[c] EXCEPT !.members =
              IF wanted[c] \in @ THEN @ \ {wanted[c]} ELSE @ \cup {wanted[c]}])
Invited(c) == [config[c] EXCEPT !.min = Terms[wanted[c]].min, !.seq = Terms[wanted[c]].seq]
Lower(c) == Bump(c, [config[c] EXCEPT !.min = wanted[c]])

\* What a change of the config makes of it.
LEMMA Changes ==
  ASSUME Locals, GivenInv, NEW c \in Clients
  PROVE  /\ Does(c, "set_wrapped") =>
              /\ Wrap(c) \in Config /\ Wrap(c).id = config[c].id
              /\ Wrap(c).seq = config[c].seq + 1 /\ Wrap(c).min = config[c].min
              /\ ~Wrap(c).embedded
              /\ \/ Wrap(c).signature = Cover(Wrap(c))
                 \/ Wrap(c).signature = config[c].signature
         /\ Does(c, "set_members") =>
              /\ Enrol(c) \in Config /\ Enrol(c).id = config[c].id
              /\ Enrol(c).seq = config[c].seq + 1 /\ Enrol(c).min = config[c].min
              /\ Enrol(c).wrapped = config[c].wrapped /\ Enrol(c).embedded = config[c].embedded
              /\ \/ Enrol(c).signature = Cover(Enrol(c))
                 \/ Enrol(c).signature = config[c].signature
         /\ Does(c, "set_invite") =>
              /\ Invited(c) \in Config /\ Invited(c).id = config[c].id
              /\ Invited(c).seq > 0 /\ Invited(c).min > 0
              /\ Invited(c).wrapped = config[c].wrapped
              /\ Invited(c).embedded = config[c].embedded
              /\ Invited(c).signature = config[c].signature
         /\ Does(c, "set_min") =>
              /\ Lower(c) \in Config /\ Lower(c).id = config[c].id
              /\ Lower(c).seq = config[c].seq + 1 /\ Lower(c).min = wanted[c]
              /\ Lower(c).wrapped = config[c].wrapped /\ Lower(c).embedded = config[c].embedded
              /\ \/ Lower(c).signature = Cover(Lower(c))
                 \/ Lower(c).signature = config[c].signature
<1>0. config[c] \in Config
  BY DEF Locals
<1>1. ASSUME Does(c, "set_wrapped")
      PROVE  /\ Wrap(c) \in Config /\ Wrap(c).id = config[c].id
             /\ Wrap(c).seq = config[c].seq + 1 /\ Wrap(c).min = config[c].min
             /\ ~Wrap(c).embedded
             /\ \/ Wrap(c).signature = Cover(Wrap(c))
                \/ Wrap(c).signature = config[c].signature
  <2> DEFINE cfg == [config[c] EXCEPT !.wrapped = TRUE, !.embedded = FALSE]
  <2>1. cfg \in Config /\ cfg.id = config[c].id /\ cfg.seq = config[c].seq
        /\ cfg.min = config[c].min /\ cfg.embedded = FALSE
        /\ cfg.signature = config[c].signature
    BY <1>0 DEF Config
  <2> HIDE DEF cfg
  <2>2. Wrap(c) = Bump(c, cfg)
    BY DEF Wrap, cfg
  <2> QED
    BY <2>1, <2>2, BumpType
<1>2. ASSUME Does(c, "set_members")
      PROVE  /\ Enrol(c) \in Config /\ Enrol(c).id = config[c].id
             /\ Enrol(c).seq = config[c].seq + 1 /\ Enrol(c).min = config[c].min
             /\ Enrol(c).wrapped = config[c].wrapped /\ Enrol(c).embedded = config[c].embedded
             /\ \/ Enrol(c).signature = Cover(Enrol(c))
                \/ Enrol(c).signature = config[c].signature
  <2> DEFINE set == IF wanted[c] \in config[c].members THEN config[c].members \ {wanted[c]}
                    ELSE config[c].members \cup {wanted[c]}
             cfg == [config[c] EXCEPT !.members = set]
  <2>0. set \in SUBSET Nodes
    <3>1. wanted[c] \in Nodes
      BY <1>2, DoesIsDue DEF GivenInv
    <3> QED
      BY <3>1, <1>0 DEF Config
  <2>1. cfg \in Config /\ cfg.id = config[c].id /\ cfg.seq = config[c].seq
        /\ cfg.min = config[c].min /\ cfg.embedded = config[c].embedded
        /\ cfg.wrapped = config[c].wrapped /\ cfg.signature = config[c].signature
    <3> HIDE DEF set
    <3> QED
      BY <1>0, <2>0 DEF Config
  <2>2. Enrol(c) = Bump(c, cfg)
    BY DEF Enrol
  <2> HIDE DEF cfg
  <2> QED
    BY <2>1, <2>2, BumpType
<1>3. ASSUME Does(c, "set_invite")
      PROVE  /\ Invited(c) \in Config /\ Invited(c).id = config[c].id
             /\ Invited(c).seq > 0 /\ Invited(c).min > 0
             /\ Invited(c).wrapped = config[c].wrapped
             /\ Invited(c).embedded = config[c].embedded
             /\ Invited(c).signature = config[c].signature
  <2>1. wanted[c] \in Invites
    BY <1>3, DoesIsDue DEF GivenInv
  <2>2. Terms[wanted[c]].min \in Nat \ {0} /\ Terms[wanted[c]].seq \in Nat \ {0}
    BY <2>1, ConfigAssumption
  <2> DEFINE min == Terms[wanted[c]].min
             seq == Terms[wanted[c]].seq
             cfg == [config[c] EXCEPT !.min = min, !.seq = seq]
  <2>3. min \in Nat /\ min > 0 /\ seq \in Nat /\ seq > 0
    BY <2>2
  <2> HIDE DEF min, seq
  <2>4. cfg \in Config /\ cfg.id = config[c].id /\ cfg.seq = seq /\ cfg.min = min
        /\ cfg.wrapped = config[c].wrapped /\ cfg.embedded = config[c].embedded
        /\ cfg.signature = config[c].signature
    BY <1>0, <2>3 DEF Config
  <2>5. Invited(c) = cfg
    BY DEF Invited, min, seq
  <2> QED
    BY <2>3, <2>4, <2>5
<1>4. ASSUME Does(c, "set_min")
      PROVE  /\ Lower(c) \in Config /\ Lower(c).id = config[c].id
             /\ Lower(c).seq = config[c].seq + 1 /\ Lower(c).min = wanted[c]
             /\ Lower(c).wrapped = config[c].wrapped /\ Lower(c).embedded = config[c].embedded
             /\ \/ Lower(c).signature = Cover(Lower(c))
                \/ Lower(c).signature = config[c].signature
  <2> DEFINE cfg == [config[c] EXCEPT !.min = wanted[c]]
  <2>0. wanted[c] \in Nat
    BY <1>4, DoesIsDue DEF GivenInv
  <2>1. cfg \in Config /\ cfg.id = config[c].id /\ cfg.seq = config[c].seq
        /\ cfg.min = wanted[c] /\ cfg.embedded = config[c].embedded
        /\ cfg.wrapped = config[c].wrapped /\ cfg.signature = config[c].signature
    BY <1>0, <2>0 DEF Config
  <2> HIDE DEF cfg
  <2>2. Lower(c) = Bump(c, cfg)
    BY DEF Lower, cfg
  <2> QED
    BY <2>1, <2>2, BumpType
<1> QED
  BY <1>1, <1>2, <1>3, <1>4

\* A change of the config leaves the files alone.
LEMMA ChangeTurn ==
  ASSUME Locals, GivenInv, NEW c \in Clients, SetConfig(c)
  PROVE  /\ Locals' /\ UNCHANGED <<configFiles, commands, configGhosts>>
         /\ \/ /\ Does(c, "set_wrapped")
               /\ Turned(c, Tail(steps[c]), Wrap(c), wanted[c])
            \/ /\ Does(c, "set_members")
               /\ Turned(c, Tail(steps[c]), Enrol(c), wanted[c])
            \/ /\ Does(c, "set_invite")
               /\ Turned(c, Tail(steps[c]), Invited(c), wanted[c])
<1>1. Running(c) /\ UNCHANGED <<configFiles, commands, configGhosts>>
  BY DEF SetConfig, Does
<1>2. Tail(steps[c]) \in Seq(StepNames)
  BY <1>1, Unfold DEF Running, Locals
<1>3. \/ Does(c, "set_wrapped") /\ Proceed(c, Tail(steps[c]), Wrap(c))
      \/ Does(c, "set_members") /\ Proceed(c, Tail(steps[c]), Enrol(c))
      \/ Does(c, "set_invite") /\ Proceed(c, Tail(steps[c]), Invited(c))
  BY DEF SetConfig, Rest, Wrap, Enrol, Invited
<1>4. CASE Does(c, "set_wrapped") /\ Proceed(c, Tail(steps[c]), Wrap(c))
  <2>1. Wrap(c) \in Config
    BY <1>4, Changes
  <2> QED
    BY <1>1, <1>2, <1>4, <2>1, Proceeding
<1>5. CASE Does(c, "set_members") /\ Proceed(c, Tail(steps[c]), Enrol(c))
  <2>1. Enrol(c) \in Config
    BY <1>5, Changes
  <2> QED
    BY <1>1, <1>2, <1>5, <2>1, Proceeding
<1>6. CASE Does(c, "set_invite") /\ Proceed(c, Tail(steps[c]), Invited(c))
  <2>1. Invited(c) \in Config
    BY <1>6, Changes
  <2> QED
    BY <1>1, <1>2, <1>6, <2>1, Proceeding
<1> QED
  BY <1>3, <1>4, <1>5, <1>6

LEMMA MinTurn ==
  ASSUME Locals, GivenInv, NEW c \in Clients, SetMin(c)
  PROVE  /\ Locals' /\ Does(c, "set_min")
         /\ UNCHANGED <<configFiles, commands, born, legacy, together, halfWritten, protected>>
         /\ \/ /\ config[c].min # wanted[c] /\ halfApplied' = halfApplied
               /\ Turned(c, Tail(steps[c]), Lower(c), wanted[c])
            \/ /\ config[c].min = wanted[c] /\ halfApplied' = FALSE
               /\ Turned(c, <<>>, config[c], wanted[c])
<1>1. Running(c) /\ Does(c, "set_min")
      /\ UNCHANGED <<configFiles, commands, born, legacy, together, halfWritten, protected>>
  BY DEF SetMin, Does
<1>2. Tail(steps[c]) \in Seq(StepNames) /\ <<>> \in Seq(StepNames) /\ config[c] \in Config
  BY <1>1, Unfold, NothingLeft DEF Running, Locals
<1>3. CASE config[c].min # wanted[c]
  <2>1. Proceed(c, Tail(steps[c]), Lower(c)) /\ halfApplied' = halfApplied
    BY <1>3 DEF SetMin, Rest, Lower
  <2>2. Lower(c) \in Config
    BY <1>1, Changes
  <2> QED
    BY <1>1, <1>2, <1>3, <2>1, <2>2, Proceeding
<1>4. CASE config[c].min = wanted[c]
  <2>1. Proceed(c, <<>>, config[c]) /\ halfApplied' = FALSE
    BY <1>4 DEF SetMin
  <2> QED
    BY <1>1, <1>2, <1>4, <2>1, Proceeding
<1> QED
  BY <1>3, <1>4

\* What load_policy goes on with.
CurrentMin(c) == IF policyFile = 0 THEN config[c].min ELSE policyFile
Intended(c) == IF wanted[c] = 0 THEN CurrentMin(c) ELSE wanted[c]

LEMMA LoadTurn ==
  ASSUME Locals, CPlanInv, policyFile \in Nat, NEW c \in Clients, LoadPolicy(c)
  PROVE  /\ Locals' /\ Does(c, "load_policy")
         /\ Turned(c, Tail(steps[c]), config[c], Intended(c))
         /\ policyFile' = CurrentMin(c) /\ CurrentMin(c) \in Nat
         /\ UNCHANGED <<configFile, keyFile, wrappedFile, folders, commands, configGhosts>>
<1>1. /\ Running(c) /\ Does(c, "load_policy") /\ policyFile' = CurrentMin(c)
      /\ wanted' = [wanted EXCEPT ![c] = IF @ = 0 THEN CurrentMin(c) ELSE @]
      /\ steps' = [steps EXCEPT ![c] = Tail(@)]
      /\ UNCHANGED <<config, pass, home>>
      /\ UNCHANGED <<configFile, keyFile, wrappedFile, folders, commands, configGhosts>>
  BY DEF LoadPolicy, Does, CurrentMin
<1>2. steps[c] \in Seq(StepNames) /\ steps[c] # <<>> /\ Ordered(steps[c])
      /\ Head(steps[c]) = "load_policy"
  BY <1>1 DEF Running, Locals, CPlanInv, Does
<1>3. Tail(steps[c]) \in Seq(StepNames) /\ Tail(steps[c]) # <<>>
  <2>1. Tail(steps[c]) \in Seq(StepNames)
    BY <1>2, Unfold
  <2>2. In(Tail(steps[c]), "save_policy")
    BY <1>2, OrderedTail DEF Leads
  <2> QED
    BY <2>1, <2>2, NothingLeft
<1>4. CurrentMin(c) \in Nat
  BY DEF CurrentMin, Locals, Config
<1>5. wanted' = [wanted EXCEPT ![c] = Intended(c)] /\ wanted'[c] = Intended(c)
      /\ wanted' \in [Clients -> Nat \cup Nodes \cup Invites]
  BY <1>1, <1>4 DEF Intended, Locals
<1>6. steps'[c] = Tail(steps[c]) /\ steps' \in [Clients -> Seq(StepNames)]
      /\ \A d \in Clients \ {c} : steps'[d] = steps[d]
  BY <1>1, <1>3 DEF Locals
<1>7. \A d \in Clients \ {c} : wanted'[d] = wanted[d]
  BY <1>5 DEF Locals
<1>8. Locals'
  BY <1>1, <1>5, <1>6 DEF Locals
<1>9. Turned(c, Tail(steps[c]), config[c], Intended(c))
  BY <1>1, <1>3, <1>5, <1>6, <1>7 DEF Turned
<1> QED
  BY <1>1, <1>4, <1>8, <1>9

LEMMA KillTurn ==
  ASSUME Locals, NEW c \in Clients, KillClient(c)
  PROVE  /\ Locals' /\ Turned(c, <<>>, Blank, wanted[c])
         /\ UNCHANGED <<configFiles, commands, born, legacy, together, protected>>
<1>1. Running(c) /\ Proceed(c, <<>>, Blank)
      /\ UNCHANGED <<configFiles, commands, born, legacy, together, protected>>
  BY DEF KillClient
<1> QED
  BY <1>1, BlankType, NothingLeft, Proceeding

-----------------------------------------------------------------------------
(* The beginnings                                                          *)

\* A create or a join.
Making(c, plan) ==
  /\ folders = "none" /\ folders' = "root"
  /\ UNCHANGED <<configFile, keyFile, wrappedFile, policyFile, born, legacy,
                 halfWritten, halfApplied, protected>>
  /\ plan \in MakePlans /\ Launched(c, plan)
  /\ config'[c].id = FirstId /\ config'[c].seq = 1 /\ config'[c].min > 0
  /\ config'[c].wrapped = FALSE /\ config'[c].embedded = FALSE
  /\ config'[c].signature \in {NoSignature, Cover(config'[c])}
  /\ plan = CreateSteps(TRUE) => pass'[c] \in Passphrases
  /\ plan # CreateSteps(TRUE) => pass'[c] = NoFileYet
  /\ plan = JoinSteps => wanted'[c] \in Invites /\ config'[c].signature = NoSignature
  /\ plan # JoinSteps => wanted'[c] \in Replicas /\ config'[c].min = wanted'[c]

\* A command on the vault there is.
Opening(c, todo) ==
  /\ UNCHANGED <<configFiles, born, legacy, halfWritten, halfApplied, protected>>
  /\ todo \in Todos /\ Launched(c, MigrationSteps(c) \o todo)
  /\ config'[c] = Opened(c) /\ \E p \in Passphrases : Opens(c, p)
  /\ todo = ProtectSteps => pass'[c] \in Passphrases /\ wanted'[c] = 0
  /\ todo # ProtectSteps => pass'[c] = NoFileYet
  /\ todo = PolicySteps => wanted'[c] \in Replicas \cup {0}
  /\ todo \notin {ProtectSteps, PolicySteps} => wanted'[c] \in Nodes

LEMMA MigrationsTyped ==
  ASSUME NEW c \in Clients
  PROVE  /\ MigrationSteps(c) \in Migrations
         /\ MigrationSteps(c) = <<>> \o <<>> <=>
              ~Embedded /\ configFile.id # NoId /\ configFile.seq # 0
         /\ MigrationSteps(c) \in
              {(WriteKey \o WriteConfig) \o <<>>, (WriteKey \o WriteConfig) \o WriteConfig}
              <=> Embedded
<1>1. /\ <<>> \o WriteConfig # <<>> \o <<>>
      /\ (WriteKey \o WriteConfig) \o <<>> # <<>> \o <<>>
      /\ (WriteKey \o WriteConfig) \o WriteConfig # <<>> \o <<>>
      /\ (WriteKey \o WriteConfig) \o <<>> # <<>> \o WriteConfig
      /\ (WriteKey \o WriteConfig) \o WriteConfig # <<>> \o WriteConfig
  <2>1. In(<<>> \o WriteConfig, "write_config") /\ ~In(<<>> \o WriteConfig, "write_key")
    BY InMigration
  <2>2. ~In(<<>> \o <<>>, "write_config") /\ ~In(<<>> \o <<>>, "write_key")
    BY InMigration
  <2>3. In((WriteKey \o WriteConfig) \o <<>>, "write_key")
        /\ In((WriteKey \o WriteConfig) \o WriteConfig, "write_key")
    BY InMigration
  <2> QED
    BY <2>1, <2>2, <2>3, Zenon
<1>2. MigrationSteps(c) = (IF Embedded THEN WriteKey \o WriteConfig ELSE <<>>)
        \o (IF configFile.id = NoId \/ configFile.seq = 0 THEN WriteConfig ELSE <<>>)
  BY DEF MigrationSteps
<1>3. CASE Embedded /\ (configFile.id = NoId \/ configFile.seq = 0)
  <2>1. MigrationSteps(c) = (WriteKey \o WriteConfig) \o WriteConfig
    BY <1>2, <1>3
  <2> QED
    BY <1>1, <1>3, <2>1, Zenon DEF Migrations
<1>4. CASE Embedded /\ ~(configFile.id = NoId \/ configFile.seq = 0)
  <2>1. MigrationSteps(c) = (WriteKey \o WriteConfig) \o <<>>
    BY <1>2, <1>4
  <2> QED
    BY <1>1, <1>4, <2>1, Zenon DEF Migrations
<1>5. CASE ~Embedded /\ (configFile.id = NoId \/ configFile.seq = 0)
  <2>1. MigrationSteps(c) = <<>> \o WriteConfig
    BY <1>2, <1>5
  <2> QED
    BY <1>1, <1>5, <2>1, Zenon DEF Migrations
<1>6. CASE ~Embedded /\ ~(configFile.id = NoId \/ configFile.seq = 0)
  <2>1. MigrationSteps(c) = <<>> \o <<>>
    BY <1>2, <1>6
  <2> QED
    BY <1>1, <1>6, <2>1, Zenon DEF Migrations
<1> QED
  BY <1>3, <1>4, <1>5, <1>6

LEMMA OpenedType ==
  ASSUME NEW c \in Clients, Readable, configFile \in Config
  PROVE  /\ Opened(c) \in Config /\ Opened(c).id = Id(c) /\ Opened(c).id # NoId
         /\ Opened(c).seq = IF configFile.seq = 0 THEN 1 ELSE configFile.seq
         /\ Opened(c).seq > 0
         /\ Opened(c).min = configFile.min /\ Opened(c).members = configFile.members
         /\ Opened(c).wrapped = (configFile.wrapped \/ UsesWrapped)
         /\ Opened(c).embedded = (configFile.embedded /\ ~Embedded)
         /\ Opened(c).signature = configFile.signature
<1> DEFINE id == Id(c)
           seq == IF configFile.seq = 0 THEN 1 ELSE configFile.seq
           wrapped == configFile.wrapped \/ UsesWrapped
           embedded == configFile.embedded /\ ~Embedded
<1>1. id \in VaultIds /\ id # NoId
  BY ConfigAssumption DEF Id, VaultIds, Config
<1>2. seq \in Nat /\ seq > 0
  BY DEF Config
<1>3. wrapped \in BOOLEAN /\ embedded \in BOOLEAN
  BY DEF Config, UsesWrapped, Embedded
<1>4. Opened(c) = [configFile EXCEPT !.id = id, !.seq = seq, !.wrapped = wrapped,
                                     !.embedded = embedded]
  BY DEF Opened
<1> HIDE DEF id, seq, wrapped, embedded
<1>5. /\ Opened(c) \in Config /\ Opened(c).id = id /\ Opened(c).seq = seq
      /\ Opened(c).min = configFile.min /\ Opened(c).members = configFile.members
      /\ Opened(c).wrapped = wrapped /\ Opened(c).embedded = embedded
      /\ Opened(c).signature = configFile.signature
  BY <1>1, <1>2, <1>3, <1>4 DEF Config
<1> QED
  BY <1>1, <1>2, <1>5 DEF id, seq, wrapped, embedded

LEMMA Launching ==
  ASSUME Locals, NEW c \in Clients, NEW plan \in Seq(StepNames), NEW key \in BOOLEAN,
         Launch(c, plan, key)
  PROVE  /\ steps' \in [Clients -> Seq(StepNames)] /\ home' \in [Clients -> BOOLEAN]
         /\ ~Running(c) /\ steps'[c] = plan /\ \A d \in Clients \ {c} : steps'[d] = steps[d]
         /\ commands' = commands + 1 /\ together' = (together \/ ~Quiescent)
<1>1. /\ ~Running(c) /\ steps' = [steps EXCEPT ![c] = plan]
      /\ home' = [home EXCEPT ![c] = key]
      /\ commands' = commands + 1 /\ together' = (together \/ ~Quiescent)
  BY DEF Launch
<1> QED
  BY <1>1 DEF Locals

LEMMA CreateTurn ==
  ASSUME Locals, NEW c \in Clients, NEW key \in BOOLEAN, NEW n \in Replicas,
         NEW p \in Passphrases \cup {NoFileYet}, Create(c, key, n, p)
  PROVE  Locals' /\ commands' = commands + 1 /\ \E plan \in MakePlans : Making(c, plan)
<1> DEFINE plan == CreateSteps(p # NoFileYet)
           cfg == [Blank EXCEPT !.id = FirstId, !.seq = 1, !.min = n]
           signed == [cfg EXCEPT !.signature = Cover(cfg)]
           new == IF key THEN signed ELSE cfg
<1>1. plan \in MakePlans
  BY DEF MakePlans
<1>2. plan \in Seq(StepNames)
  BY <1>1, MakePlansOrdered
<1>3. n \in Nat /\ n > 0
  BY ConfigAssumption
<1>4. cfg \in Config /\ cfg.id = FirstId /\ cfg.seq = 1 /\ cfg.min = n /\ cfg.wrapped = FALSE
      /\ cfg.embedded = FALSE /\ cfg.signature = NoSignature
  BY <1>3 DEF Blank, Config, VaultIds
<1>5. signed \in Config /\ signed.id = FirstId /\ signed.seq = 1 /\ signed.min = n
      /\ signed.wrapped = FALSE /\ signed.embedded = FALSE /\ signed.signature = Cover(signed)
  <2> HIDE DEF cfg
  <2>1. Cover(cfg) \in Covered
    BY <1>4 DEF Cover, Covered, Config
  <2>2. signed \in Config /\ signed.id = FirstId /\ signed.seq = 1 /\ signed.min = n
        /\ signed.wrapped = FALSE /\ signed.embedded = FALSE /\ signed.signature = Cover(cfg)
        /\ signed.members = cfg.members
    BY <1>4, <2>1 DEF Config
  <2>3. Cover(signed) = Cover(cfg)
    BY <1>4, <2>2 DEF Cover
  <2> QED
    BY <2>2, <2>3
<1>6. /\ folders = "none" /\ folders' = "root" /\ Launch(c, plan, key)
      /\ config' = [config EXCEPT ![c] = new] /\ pass' = [pass EXCEPT ![c] = p]
      /\ wanted' = [wanted EXCEPT ![c] = n]
      /\ UNCHANGED <<configFile, keyFile, wrappedFile, policyFile, born, legacy,
                     halfWritten, halfApplied, protected>>
  BY DEF Create
<1>7. /\ steps' \in [Clients -> Seq(StepNames)] /\ home' \in [Clients -> BOOLEAN]
      /\ ~Running(c) /\ steps'[c] = plan /\ \A d \in Clients \ {c} : steps'[d] = steps[d]
      /\ commands' = commands + 1 /\ together' = (together \/ ~Quiescent)
  BY <1>2, <1>6, Launching
<1>8. /\ new \in Config /\ new.id = FirstId /\ new.seq = 1 /\ new.min = n
      /\ new.wrapped = FALSE /\ new.embedded = FALSE
      /\ new.signature \in {NoSignature, Cover(new)}
  <2> HIDE DEF cfg, signed
  <2> QED
    BY <1>4, <1>5
<1>9. /\ CreateSteps(TRUE) # JoinSteps /\ CreateSteps(FALSE) # JoinSteps
      /\ CreateSteps(TRUE) # CreateSteps(FALSE)
  <2>1. In(CreateSteps(TRUE), "remove_key") /\ In(CreateSteps(TRUE), "save_policy")
    BY InMakePlan
  <2>2. ~In(CreateSteps(FALSE), "remove_key")
    <3>1. \A x : In(CreateSteps(FALSE), x) <=>
            x \in {"truncate_config", "write_config", "truncate_key", "write_key",
                   "make_folders", "save_policy"}
      BY InMakePlan
    <3> DEFINE s == CreateSteps(FALSE)
    <3>2. \A x : In(s, x) =>
            x \in {"truncate_config", "write_config", "truncate_key", "write_key",
                   "make_folders", "save_policy"}
      BY <3>1
    <3> HIDE DEF s
    <3>3. ~In(s, "remove_key")
      BY <3>2
    <3> QED
      BY <3>3 DEF s
  <2>4. In(CreateSteps(FALSE), "save_policy")
    BY InMakePlan
  <2>3. ~In(JoinSteps, "remove_key") /\ ~In(JoinSteps, "save_policy")
    BY InMakePlan
  <2> QED
    BY <2>1, <2>2, <2>3, <2>4, Zenon
<1>10. plan = CreateSteps(TRUE) <=> p # NoFileYet
  BY <1>9
<1>11. plan # JoinSteps
  BY <1>9
<1>12. p # NoFileYet => p \in Passphrases
  OBVIOUS
<1> HIDE DEF plan, new, cfg, signed
<1>13. Locals'
  BY <1>6, <1>7, <1>8, <1>3 DEF Locals
<1>14. config'[c] = new /\ pass'[c] = p /\ wanted'[c] = n
       /\ \A d \in Clients \ {c} :
            config'[d] = config[d] /\ pass'[d] = pass[d] /\ wanted'[d] = wanted[d]
  BY <1>6 DEF Locals
<1>15. Launched(c, plan)
  BY <1>7, <1>14 DEF Launched
<1>16. Making(c, plan)
  BY <1>1, <1>3, <1>6, <1>8, <1>10, <1>11, <1>12, <1>14, <1>15 DEF Making
<1> QED
  BY <1>1, <1>7, <1>13, <1>16

LEMMA JoinTurn ==
  ASSUME Locals, GivenInv, NEW c \in Clients, NEW key \in BOOLEAN, NEW inv \in Invites,
         Join(c, key, inv)
  PROVE  Locals' /\ commands' = commands + 1 /\ \E plan \in MakePlans : Making(c, plan)
<1> DEFINE new == [Blank EXCEPT !.id = FirstId, !.seq = 1, !.members = Terms[inv].members]
<1>1. JoinSteps \in MakePlans /\ JoinSteps \in Seq(StepNames)
  BY MakePlansOrdered DEF MakePlans
<1>2. Terms[inv].members \in SUBSET Nodes
  BY ConfigAssumption
<1>3. DefaultReplicas \in Nat /\ DefaultReplicas > 0
  BY ConfigAssumption
<1>4. new \in Config /\ new.id = FirstId /\ new.seq = 1 /\ new.min > 0 /\ new.wrapped = FALSE
      /\ new.embedded = FALSE /\ new.signature = NoSignature
  BY <1>2, <1>3 DEF Blank, Config, VaultIds
<1>5. /\ folders = "none" /\ folders' = "root" /\ Launch(c, JoinSteps, key)
      /\ config' = [config EXCEPT ![c] = new] /\ wanted' = [wanted EXCEPT ![c] = inv]
      /\ UNCHANGED <<configFile, keyFile, wrappedFile, policyFile, pass, born, legacy,
                     halfWritten, halfApplied, protected>>
  BY DEF Join
<1>6. /\ steps' \in [Clients -> Seq(StepNames)] /\ home' \in [Clients -> BOOLEAN]
      /\ ~Running(c) /\ steps'[c] = JoinSteps
      /\ \A d \in Clients \ {c} : steps'[d] = steps[d]
      /\ commands' = commands + 1 /\ together' = (together \/ ~Quiescent)
  BY <1>1, <1>5, Launching
<1>7. JoinSteps # CreateSteps(TRUE)
  <2>1. In(CreateSteps(TRUE), "remove_key") /\ ~In(JoinSteps, "remove_key")
    BY InMakePlan
  <2> QED
    BY <2>1, Zenon
<1>8. pass[c] = NoFileYet
  BY <1>6 DEF GivenInv
<1> HIDE DEF new
<1>9. Locals'
  BY <1>4, <1>5, <1>6 DEF Locals
<1>10. config'[c] = new /\ pass'[c] = NoFileYet /\ wanted'[c] = inv
       /\ \A d \in Clients \ {c} :
            config'[d] = config[d] /\ pass'[d] = pass[d] /\ wanted'[d] = wanted[d]
  BY <1>5, <1>8 DEF Locals
<1>11. Launched(c, JoinSteps)
  BY <1>6, <1>10 DEF Launched
<1>12. Making(c, JoinSteps)
  BY <1>1, <1>4, <1>5, <1>7, <1>10, <1>11 DEF Making
<1> QED
  BY <1>1, <1>6, <1>9, <1>12

Commands(c, key, p) ==
  \/ \E new \in Passphrases : Protect(c, key, p, new)
  \/ \E n \in Replicas \cup {0} : SetPolicy(c, key, p, n)
  \/ \E n \in Nodes : ChangeMembers(c, key, p, n)

LEMMA OpenTurn ==
  ASSUME Locals, GivenInv, Readable => configFile \in Config,
         NEW c \in Clients, NEW key \in BOOLEAN, NEW p \in Passphrases, Commands(c, key, p)
  PROVE  /\ Locals' /\ commands' = commands + 1 /\ \E todo \in Todos : Opening(c, todo)
<1>1. PICK todo \in Todos :
        /\ Open(c, key, p, todo, Opened(c))
        /\ todo = ProtectSteps =>
             \E new \in Passphrases : pass' = [pass EXCEPT ![c] = new] /\ wanted' = wanted
        /\ todo # ProtectSteps => pass' = pass
        /\ todo = PolicySteps =>
             \E n \in Replicas \cup {0} : wanted' = [wanted EXCEPT ![c] = n]
        /\ todo \notin {ProtectSteps, PolicySteps} =>
             \E n \in Nodes : wanted' = [wanted EXCEPT ![c] = n]
  <2>1. /\ ProtectSteps # PolicySteps
        /\ <<"set_members">> \o WriteConfig \notin {ProtectSteps, PolicySteps}
    <3>1. In(ProtectSteps, "remove_key") /\ ~In(ProtectSteps, "set_min")
      BY Parts
    <3>2. In(PolicySteps, "set_min") /\ ~In(PolicySteps, "remove_key")
      BY Parts
    <3>3. ~In(<<"set_members">> \o WriteConfig, "remove_key")
          /\ ~In(<<"set_members">> \o WriteConfig, "set_min")
      BY Parts
    <3> QED
      BY <3>1, <3>2, <3>3, Zenon
  <2>2. CASE \E new \in Passphrases : Protect(c, key, p, new)
    <3>1. Open(c, key, p, ProtectSteps, Opened(c)) /\ wanted' = wanted
          /\ \E new \in Passphrases : pass' = [pass EXCEPT ![c] = new]
      BY <2>2 DEF Protect
    <3>2. ProtectSteps \in Todos
      BY DEF Todos
    <3> QED
      BY <2>1, <3>1, <3>2
  <2>3. CASE \E n \in Replicas \cup {0} : SetPolicy(c, key, p, n)
    <3>1. Open(c, key, p, PolicySteps, Opened(c)) /\ pass' = pass
          /\ \E n \in Replicas \cup {0} : wanted' = [wanted EXCEPT ![c] = n]
      BY <2>3 DEF SetPolicy
    <3>2. PolicySteps \in Todos
      BY DEF Todos
    <3> QED
      BY <2>1, <3>1, <3>2
  <2>4. CASE \E n \in Nodes : ChangeMembers(c, key, p, n)
    <3>1. Open(c, key, p, <<"set_members">> \o WriteConfig, Opened(c)) /\ pass' = pass
          /\ \E n \in Nodes : wanted' = [wanted EXCEPT ![c] = n]
      BY <2>4 DEF ChangeMembers
    <3>2. <<"set_members">> \o WriteConfig \in Todos
      BY DEF Todos
    <3> QED
      BY <2>1, <3>1, <3>2
  <2> QED
    BY <2>2, <2>3, <2>4 DEF Commands
<1> DEFINE plan == MigrationSteps(c) \o todo
<1>2. /\ Opens(c, p) /\ Launch(c, plan, key)
      /\ config' = [config EXCEPT ![c] = Opened(c)]
      /\ UNCHANGED <<configFiles, born, legacy, halfWritten, halfApplied, protected>>
  BY <1>1 DEF Open
<1>3. plan \in Seq(StepNames)
  BY MigrationsTyped, OpenPlans
<1> HIDE DEF plan
<1>4. /\ steps' \in [Clients -> Seq(StepNames)] /\ home' \in [Clients -> BOOLEAN]
      /\ ~Running(c) /\ steps'[c] = plan
      /\ \A d \in Clients \ {c} : steps'[d] = steps[d]
      /\ commands' = commands + 1 /\ together' = (together \/ ~Quiescent)
  BY <1>2, <1>3, Launching
<1>5. Opened(c) \in Config
  <2>1. Readable
    BY <1>2 DEF Opens, Readable
  <2> QED
    BY <2>1, OpenedType
<1>6. /\ pass' \in [Clients -> Passphrases \cup {NoFileYet}]
      /\ todo = ProtectSteps => pass'[c] \in Passphrases
      /\ todo # ProtectSteps => pass'[c] = NoFileYet
      /\ \A d \in Clients \ {c} : pass'[d] = pass[d]
  <2>1. pass[c] = NoFileYet
    BY <1>4 DEF GivenInv
  <2>2. CASE todo = ProtectSteps
    BY <1>1, <2>2 DEF Locals
  <2>3. CASE todo # ProtectSteps
    <3>1. pass' = pass
      BY <1>1, <2>3
    <3> QED
      BY <2>1, <2>3, <3>1 DEF Locals
  <2> QED
    BY <2>2, <2>3
<1>7. /\ wanted' \in [Clients -> Nat \cup Nodes \cup Invites]
      /\ todo = ProtectSteps => wanted'[c] = 0
      /\ todo = PolicySteps => wanted'[c] \in Replicas \cup {0}
      /\ todo \notin {ProtectSteps, PolicySteps} => wanted'[c] \in Nodes
      /\ \A d \in Clients \ {c} : wanted'[d] = wanted[d]
  <2>1. wanted[c] = 0
    BY <1>4 DEF GivenInv
  <2>2. Replicas \cup {0} \subseteq Nat
    BY ConfigAssumption
  <2>3. CASE todo = ProtectSteps
    <3>1. wanted' = wanted
      BY <1>1, <2>3
    <3> QED
      BY <2>1, <2>3, <3>1 DEF Locals
  <2>4. CASE todo = PolicySteps
    <3>1. PICK n \in Replicas \cup {0} : wanted' = [wanted EXCEPT ![c] = n]
      BY <1>1, <2>4
    <3>2. n \in Nat
      BY <2>2
    <3>3. ProtectSteps # PolicySteps
      <4>1. In(ProtectSteps, "remove_key")
        BY Parts
      <4>2. ~In(PolicySteps, "remove_key")
        BY Parts
      <4> QED
        BY <4>1, <4>2, Zenon
    <3> QED
      BY <2>4, <3>1, <3>2, <3>3 DEF Locals
  <2>5. CASE todo \notin {ProtectSteps, PolicySteps}
    <3>1. PICK n \in Nodes : wanted' = [wanted EXCEPT ![c] = n]
      BY <1>1, <2>5
    <3> QED
      BY <2>5, <3>1 DEF Locals
  <2> QED
    BY <2>3, <2>4, <2>5
<1>8. config' \in [Clients -> Config] /\ config'[c] = Opened(c)
      /\ \A d \in Clients \ {c} : config'[d] = config[d]
  BY <1>2, <1>5 DEF Locals
<1>9. Locals'
  BY <1>4, <1>6, <1>7, <1>8 DEF Locals
<1>10. Launched(c, plan)
  BY <1>4, <1>6, <1>7, <1>8 DEF Launched
<1>11. Opening(c, todo)
  BY <1>2, <1>6, <1>7, <1>8, <1>10 DEF Opening, plan
<1> QED
  BY <1>4, <1>9, <1>11

-----------------------------------------------------------------------------
(* The next-state relation by kinds of steps                               *)

ClientStep(c) == Plain(c) \/ SetConfig(c) \/ LoadPolicy(c) \/ SetMin(c) \/ KillClient(c)

LEMMA NextIsStep ==
  ASSUME CTypes, CPlanInv, GivenInv, ConfigNext
  PROVE  /\ Locals' /\ commands' \in Nat
         /\ \E c \in Clients :
              \/ \E plan \in MakePlans : Making(c, plan)
              \/ \E todo \in Todos : Opening(c, todo)
              \/ ClientStep(c)
<1>1. Locals /\ policyFile \in Nat /\ (Readable => configFile \in Config) /\ commands \in Nat
  BY DEF CTypes, VaultFiles, Ghosts
<1>2. ASSUME NEW c \in Clients, NEW key \in BOOLEAN, NEW n \in Replicas,
             NEW p \in Passphrases \cup {NoFileYet}, Create(c, key, n, p)
      PROVE  /\ Locals' /\ commands' = commands + 1
             /\ \E plan \in MakePlans : Making(c, plan)
  BY <1>1, <1>2, CreateTurn
<1>3. ASSUME NEW c \in Clients, NEW key \in BOOLEAN, NEW inv \in Invites, Join(c, key, inv)
      PROVE  /\ Locals' /\ commands' = commands + 1
             /\ \E plan \in MakePlans : Making(c, plan)
  BY <1>1, <1>3, JoinTurn
<1>4. ASSUME NEW c \in Clients, NEW key \in BOOLEAN, NEW p \in Passphrases, Commands(c, key, p)
      PROVE  /\ Locals' /\ commands' = commands + 1
             /\ \E todo \in Todos : Opening(c, todo)
  BY <1>1, <1>4, OpenTurn
<1>5. ASSUME NEW c \in Clients, ClientStep(c) PROVE Locals' /\ commands' = commands
  <2>1. CASE Plain(c)
    <3>1. commands' = commands
      BY <2>1 DEF Plain, TruncateFile, FillConfig, FillKey, FillWrapped, RemoveKey,
                  MakeFolders, SavePolicy
    <3> QED
      BY <1>1, <2>1, <3>1, PlainTurn
  <2>2. CASE SetConfig(c)
    BY <1>1, <2>2, ChangeTurn
  <2>3. CASE LoadPolicy(c)
    BY <1>1, <2>3, LoadTurn
  <2>4. CASE SetMin(c)
    BY <1>1, <2>4, MinTurn
  <2>5. CASE KillClient(c)
    BY <1>1, <2>5, KillTurn
  <2> QED
    BY <1>5, <2>1, <2>2, <2>3, <2>4, <2>5 DEF ClientStep
<1>6. \/ \E c \in Clients, key \in BOOLEAN, n \in Replicas, p \in Passphrases \cup {NoFileYet} :
           Create(c, key, n, p)
      \/ \E c \in Clients, key \in BOOLEAN, inv \in Invites : Join(c, key, inv)
      \/ \E c \in Clients, key \in BOOLEAN, p \in Passphrases : Commands(c, key, p)
      \/ \E c \in Clients : ClientStep(c)
  BY DEF ConfigNext, Commands, ClientStep, Plain
<1> QED
  BY <1>1, <1>2, <1>3, <1>4, <1>5, <1>6


LEMMA StepTurn ==
  ASSUME CTypes, CPlanInv, GivenInv, NEW c \in Clients, ClientStep(c)
  PROVE  /\ Running(c)
         /\ \E rest \in {Tail(steps[c]), <<>>}, cfg \in Config : \E w : Turned(c, rest, cfg, w)
<1>1. Locals /\ policyFile \in Nat
  BY DEF CTypes, VaultFiles
<1>2. CASE Plain(c)
  <2>1. Turned(c, Tail(steps[c]), config[c], wanted[c]) /\ config[c] \in Config
    BY <1>1, <1>2, PlainTurn DEF Locals
  <2> QED
    BY <2>1 DEF Turned
<1>3. CASE SetConfig(c)
  <2>1. \/ Turned(c, Tail(steps[c]), Wrap(c), wanted[c]) /\ Wrap(c) \in Config
        \/ Turned(c, Tail(steps[c]), Enrol(c), wanted[c]) /\ Enrol(c) \in Config
        \/ Turned(c, Tail(steps[c]), Invited(c), wanted[c]) /\ Invited(c) \in Config
    BY <1>1, <1>3, ChangeTurn, Changes
  <2> QED
    BY <2>1 DEF Turned
<1>4. CASE LoadPolicy(c)
  <2>1. Turned(c, Tail(steps[c]), config[c], Intended(c)) /\ config[c] \in Config
    BY <1>1, <1>4, LoadTurn DEF Locals
  <2> QED
    BY <2>1 DEF Turned
<1>5. CASE SetMin(c)
  <2>1. \/ Turned(c, Tail(steps[c]), Lower(c), wanted[c]) /\ Lower(c) \in Config
        \/ Turned(c, <<>>, config[c], wanted[c]) /\ config[c] \in Config
    BY <1>1, <1>5, MinTurn, Changes DEF Locals
  <2> QED
    BY <2>1 DEF Turned
<1>6. CASE KillClient(c)
  <2>1. Turned(c, <<>>, Blank, wanted[c]) /\ Blank \in Config
    BY <1>1, <1>6, KillTurn, BlankType
  <2> QED
    BY <2>1 DEF Turned
<1> QED
  BY <1>2, <1>3, <1>4, <1>5, <1>6 DEF ClientStep

-----------------------------------------------------------------------------
(* Types, plans and what was given                                         *)

LEMMA FilesNext ==
  ASSUME CTypes, CPlanInv, GivenInv, ConfigNext
  PROVE  VaultFiles'
<1>0. PICK c \in Clients : \/ \E plan \in MakePlans : Making(c, plan)
                           \/ \E todo \in Todos : Opening(c, todo)
                           \/ ClientStep(c)
  BY NextIsStep
<1>1. ASSUME NEW plan \in MakePlans, Making(c, plan) PROVE VaultFiles'
  BY <1>1 DEF Making, CTypes, VaultFiles, Readable
<1>2. ASSUME NEW todo \in Todos, Opening(c, todo) PROVE VaultFiles'
  BY <1>2 DEF Opening, configFiles, CTypes, VaultFiles, Readable
<1> USE DEF CTypes
<1>3. CASE TruncateFile(c)
  <2>1. folders' = folders /\ policyFile' = policyFile
    BY <1>3 DEF TruncateFile
  <2>2. keyFile' \in {keyFile, "truncated"}
    BY <1>3 DEF TruncateFile
  <2>3. configFile' = configFile \/ configFile' = Truncated
    BY <1>3 DEF TruncateFile
  <2>4. wrappedFile' = wrappedFile \/ wrappedFile' = Truncated
    BY <1>3 DEF TruncateFile
  <2> QED
    BY <2>1, <2>2, <2>3, <2>4 DEF VaultFiles, Readable, Unreadable
<1>4. CASE FillConfig(c)
  <2>1. UNCHANGED <<keyFile, wrappedFile, policyFile, folders>>
    BY <1>4 DEF FillConfig
  <2>2. configFile' = config[c] \/ configFile' = Mixture
    BY <1>4 DEF FillConfig
  <2>3. config[c] \in Config
    BY DEF Locals
  <2> QED
    BY <2>1, <2>2, <2>3 DEF VaultFiles, Readable, Unreadable
<1>5. CASE FillKey(c)
  BY <1>5 DEF FillKey, VaultFiles, Readable
<1>6. CASE FillWrapped(c)
  <2>1. UNCHANGED <<configFile, keyFile, policyFile, folders>> /\ Does(c, "write_wrapped")
        /\ wrappedFile' = [pass |-> pass[c], id |-> config[c].id]
    BY <1>6 DEF FillWrapped
  <2>2. pass[c] \in Passphrases
    BY <2>1, DoesIsDue DEF GivenInv
  <2>3. config[c].id \in VaultIds
    BY DEF Locals, Config
  <2>4. wrappedFile' \in WrappedKey
    BY <2>1, <2>2, <2>3 DEF WrappedKey
  <2> QED
    BY <2>1, <2>4 DEF VaultFiles, Readable
<1>7. CASE RemoveKey(c)
  BY <1>7 DEF RemoveKey, VaultFiles, Readable
<1>8. CASE MakeFolders(c)
  BY <1>8 DEF MakeFolders, VaultFiles, Readable
<1>9. CASE SavePolicy(c)
  <2>1. UNCHANGED <<configFile, keyFile, wrappedFile, folders>> /\ Does(c, "save_policy")
        /\ policyFile' = wanted[c]
    BY <1>9 DEF SavePolicy
  <2>2. wanted[c] \in Nat
    BY <2>1, DoesIsDue DEF GivenInv
  <2> QED
    BY <2>1, <2>2 DEF VaultFiles, Readable
<1>10. CASE SetConfig(c)
  BY <1>10, ChangeTurn DEF configFiles, VaultFiles, Readable
<1>11. CASE LoadPolicy(c)
  <2>1. policyFile \in Nat
    BY DEF VaultFiles
  <2> QED
    BY <2>1, <1>11, LoadTurn DEF VaultFiles, Readable
<1>12. CASE SetMin(c)
  BY <1>12, MinTurn DEF configFiles, VaultFiles, Readable
<1>13. CASE KillClient(c)
  BY <1>13, KillTurn DEF configFiles, VaultFiles, Readable
<1> QED
  BY <1>0, <1>1, <1>2, <1>3, <1>4, <1>5, <1>6, <1>7, <1>8, <1>9, <1>10, <1>11, <1>12, <1>13
     DEF ClientStep, Plain

LEMMA GhostsNext ==
  ASSUME CTypes, CPlanInv, GivenInv, ConfigNext
  PROVE  Ghosts'
<1>0. PICK c \in Clients : \/ \E plan \in MakePlans : Making(c, plan)
                           \/ \E todo \in Todos : Opening(c, todo)
                           \/ ClientStep(c)
  BY NextIsStep
<1>a. commands' \in Nat
  BY NextIsStep
<1> USE DEF CTypes
<1>1. ASSUME NEW plan \in MakePlans, Making(c, plan) PROVE Ghosts'
  BY <1>a, <1>1 DEF Making, Launched, Ghosts
<1>2. ASSUME NEW todo \in Todos, Opening(c, todo) PROVE Ghosts'
  BY <1>a, <1>2 DEF Opening, Launched, Ghosts
<1>3. CASE FillConfig(c) \/ SavePolicy(c)
  <2>1. UNCHANGED <<born, legacy, together, halfWritten>> /\ Return(c)
    BY <1>3 DEF FillConfig, SavePolicy
  <2>2. protected' \in BOOLEAN /\ halfApplied' \in BOOLEAN
    BY <2>1 DEF Return, Ghosts
  <2> QED
    BY <1>a, <2>1, <2>2 DEF Ghosts
<1>4. CASE TruncateFile(c) \/ FillKey(c) \/ FillWrapped(c) \/ RemoveKey(c)
  BY <1>a, <1>4 DEF TruncateFile, FillKey, FillWrapped, RemoveKey, configGhosts, Ghosts
<1>5. CASE MakeFolders(c)
  BY <1>a, <1>5 DEF MakeFolders, Ghosts
<1>6. CASE SetConfig(c)
  BY <1>a, <1>6 DEF SetConfig, configGhosts, Ghosts
<1>7. CASE LoadPolicy(c)
  BY <1>a, <1>7 DEF LoadPolicy, configGhosts, Ghosts
<1>8. CASE SetMin(c)
  BY <1>a, <1>8, MinTurn DEF Ghosts
<1>9. CASE KillClient(c)
  BY <1>a, <1>9 DEF KillClient, Ghosts
<1> QED
  BY <1>0, <1>1, <1>2, <1>3, <1>4, <1>5, <1>6, <1>7, <1>8, <1>9 DEF ClientStep, Plain

LEMMA CTypesNext ==
  ASSUME CTypes, CPlanInv, GivenInv, ConfigNext
  PROVE  CTypes'
  BY FilesNext, GhostsNext, NextIsStep DEF CTypes

LEMMA PlanInvNext ==
  ASSUME CTypes, CPlanInv, GivenInv, ConfigNext
  PROVE  CPlanInv'
<1>0. PICK c \in Clients : \/ \E plan \in MakePlans : Making(c, plan)
                           \/ \E todo \in Todos : Opening(c, todo)
                           \/ ClientStep(c)
  BY NextIsStep
<1>a. Locals
  BY DEF CTypes
<1>1. ASSUME NEW plan \in MakePlans, Making(c, plan) PROVE CPlanInv'
  <2>1. steps'[c] = plan /\ Ordered(plan)
        /\ \A d \in Clients \ {c} : steps'[d] = steps[d] /\ pass'[d] = pass[d]
    BY <1>1, MakePlansOrdered DEF Making, Launched
  <2>2. pass'[c] # NoFileYet => Protects(plan)
    BY <1>1, InMakePlan DEF Making
  <2> QED
    BY <2>1, <2>2 DEF CPlanInv
<1>2. ASSUME NEW todo \in Todos, Opening(c, todo) PROVE CPlanInv'
  <2>1. steps'[c] = MigrationSteps(c) \o todo
        /\ \A d \in Clients \ {c} : steps'[d] = steps[d] /\ pass'[d] = pass[d]
    BY <1>2 DEF Opening, Launched
  <2>2. Ordered(MigrationSteps(c) \o todo)
        /\ (todo = ProtectSteps => Protects(MigrationSteps(c) \o todo))
    BY MigrationsTyped, OpenPlans
  <2>3. pass'[c] # NoFileYet => todo = ProtectSteps
    BY <1>2 DEF Opening
  <2> QED
    BY <2>1, <2>2, <2>3 DEF CPlanInv
<1>3. CASE ClientStep(c)
  <2>1. PICK rest, cfg, w : rest \in {Tail(steps[c]), <<>>} /\ cfg \in Config /\ Turned(c, rest, cfg, w)
    BY <1>3, StepTurn
  <2>2. steps'[c] = rest /\ (rest # <<>> => pass'[c] = pass[c]) /\ Running(c)
        /\ \A d \in Clients \ {c} : steps'[d] = steps[d] /\ pass'[d] = pass[d]
    BY <2>1 DEF Turned
  <2>3. steps[c] \in Seq(StepNames) /\ steps[c] # <<>> /\ Ordered(steps[c])
    BY <1>a, <2>2 DEF Locals, CPlanInv, Running
  <2>4. Ordered(rest)
    BY <2>1, <2>3, OrderedTail, NothingLeft
  <2>5. pass'[c] # NoFileYet => Protects(rest)
    <3>1. CASE rest = <<>>
      BY <3>1, NothingLeft
    <3>2. CASE rest # <<>>
      <4>1. pass'[c] # NoFileYet => Protects(steps[c])
        BY <2>2, <3>2 DEF CPlanInv
      <4> QED
        BY <2>1, <2>3, <3>2, <4>1, ProtectsTail
    <3> QED
      BY <3>1, <3>2
  <2> QED
    BY <2>2, <2>4, <2>5 DEF CPlanInv
<1> QED
  BY <1>0, <1>1, <1>2, <1>3

\* A step only ever takes from what is due.
LEMMA DueBefore ==
  ASSUME CTypes, CPlanInv, GivenInv, NEW c \in Clients, ClientStep(c)
  PROVE  /\ \A d \in Clients : \A x : Due(d, x)' => Due(d, x)
         /\ \A d \in Clients : Running(d)' => Running(d)
         /\ \A d \in Clients \ {c} : \A x :
              (Due(d, x) <=> Due(d, x)') /\ (Does(d, x) <=> Does(d, x)')
         /\ \A d \in Clients \ {c} : Running(d) <=> Running(d)'
<1>1. PICK rest, cfg, w : rest \in {Tail(steps[c]), <<>>} /\ cfg \in Config /\ Turned(c, rest, cfg, w)
  BY StepTurn
<1>2. Running(c) /\ Locals
  BY StepTurn DEF CTypes
<1>3. CASE rest = Tail(steps[c])
  BY <1>1, <1>2, <1>3, TurnDue
<1>4. CASE rest = <<>>
  BY <1>1, <1>2, <1>4, TurnDone
<1> QED
  BY <1>1, <1>3, <1>4

\* GivenInv, of one client.
Given(c) ==
  /\ Due(c, "truncate_wrapped") \/ Due(c, "write_wrapped") => pass[c] \in Passphrases
  /\ Due(c, "set_members") => wanted[c] \in Nodes
  /\ Due(c, "set_invite") => wanted[c] \in Invites
  /\ Due(c, "load_policy") => wanted[c] \in Replicas \cup {0}
  /\ Due(c, "save_policy") \/ Due(c, "set_min") => wanted[c] \in Nat
  /\ ~Running(c) => pass[c] = NoFileYet /\ wanted[c] = 0

LEMMA GivenOthers ==
  ASSUME GivenInv, NEW d \in Clients, steps'[d] = steps[d], pass'[d] = pass[d],
         wanted'[d] = wanted[d]
  PROVE  Given(d)'
  BY DEF GivenInv, Given, Due, Running

\* What is due in a plan that opens the vault, by what it is for.
LEMMA OpenDue ==
  ASSUME NEW c \in Clients, NEW todo \in Todos, NEW x
  PROVE  /\ In(MigrationSteps(c) \o todo, x) <=> In(MigrationSteps(c), x) \/ In(todo, x)
         /\ In(MigrationSteps(c), x) =>
              \/ x \in {"truncate_config", "write_config"}
              \/ Embedded /\ x \in {"truncate_key", "write_key"}
         /\ Embedded => In(MigrationSteps(c), "write_key")
<1>1. MigrationSteps(c) \in Migrations
  BY MigrationsTyped
<1>2. In(MigrationSteps(c) \o todo, x) <=> In(MigrationSteps(c), x) \/ In(todo, x)
  BY <1>1, OpenPlans
<1>3. CASE Embedded
  <2>1. \A y : In(MigrationSteps(c), y) <=>
          y \in {"truncate_key", "write_key", "truncate_config", "write_config"}
    BY <1>3, MigrationsTyped, InMigration
  <2> QED
    BY <1>2, <1>3, <2>1
<1>4. CASE ~Embedded
  <2>1. MigrationSteps(c) \in {<<>> \o <<>>, <<>> \o WriteConfig}
    BY <1>4, MigrationsTyped DEF Migrations
  <2>2. CASE MigrationSteps(c) = <<>> \o <<>>
    <3>1. ~In(MigrationSteps(c), x)
      BY <2>2, InMigration
    <3> QED
      BY <1>2, <1>4, <3>1
  <2>3. CASE MigrationSteps(c) = <<>> \o WriteConfig
    <3>1. In(MigrationSteps(c), x) => x \in {"truncate_config", "write_config"}
      BY <2>3, InMigration
    <3> QED
      BY <1>2, <1>4, <3>1
  <2> QED
    BY <2>1, <2>2, <2>3
<1> QED
  BY <1>3, <1>4

LEMMA GivenInvNext ==
  ASSUME CTypes, CPlanInv, GivenInv, ConfigNext
  PROVE  GivenInv'
<1>0. PICK c \in Clients : \/ \E plan \in MakePlans : Making(c, plan)
                           \/ \E todo \in Todos : Opening(c, todo)
                           \/ ClientStep(c)
  BY NextIsStep
<1>a. Locals
  BY DEF CTypes
<1>r. Replicas \subseteq Nat
  BY ConfigAssumption
<1>1. ASSUME NEW plan \in MakePlans, Making(c, plan) PROVE GivenInv'
  <2>1. \A d \in Clients \ {c} : Given(d)'
    BY <1>1, GivenOthers DEF Making, Launched
  <2>2. steps'[c] = plan /\ plan # <<>>
    BY <1>1, MakePlansOrdered DEF Making, Launched
  <2>3. CASE plan = JoinSteps
    <3>1. \A x : Due(c, x)' =>
            x \in {"truncate_config", "write_config", "truncate_key", "write_key",
                   "make_folders", "set_invite"}
      BY <2>2, <2>3, InMakePlan DEF Due
    <3>2. wanted'[c] \in Invites
      BY <1>1, <2>3 DEF Making
    <3>3. /\ ~Due(c, "truncate_wrapped")' /\ ~Due(c, "write_wrapped")'
          /\ ~Due(c, "set_members")' /\ ~Due(c, "load_policy")'
          /\ ~Due(c, "save_policy")' /\ ~Due(c, "set_min")'
      BY <3>1
    <3>4. Running(c)'
      BY <2>2 DEF Running
    <3>5. Given(c)'
      BY <3>2, <3>3, <3>4 DEF Given
    <3> QED
      BY <2>1, <3>5 DEF GivenInv, Given
  <2>4. CASE plan # JoinSteps
    <3>1. wanted'[c] \in Nat
      BY <1>1, <1>r, <2>4 DEF Making
    <3>2. plan \in {CreateSteps(TRUE), CreateSteps(FALSE)}
      BY <2>4 DEF MakePlans
    <3>3. \A x : Due(c, x)' =>
            x \in {"truncate_config", "write_config", "truncate_key", "write_key",
                   "make_folders", "save_policy", "truncate_wrapped", "write_wrapped",
                   "remove_key", "set_wrapped"}
      BY <2>2, <3>2, InMakePlan DEF Due
    <3>4. /\ ~Due(c, "set_members")' /\ ~Due(c, "set_invite")'
          /\ ~Due(c, "load_policy")' /\ ~Due(c, "set_min")'
      BY <3>3
    <3>5. Due(c, "truncate_wrapped")' \/ Due(c, "write_wrapped")' => pass'[c] \in Passphrases
      <4>1. CASE plan = CreateSteps(TRUE)
        BY <1>1, <4>1 DEF Making
      <4>2. CASE plan = CreateSteps(FALSE)
        <5>1. \A x : Due(c, x)' =>
                x \in {"truncate_config", "write_config", "truncate_key", "write_key",
                       "make_folders", "save_policy"}
          BY <2>2, <4>2, InMakePlan DEF Due
        <5> QED
          BY <5>1
      <4> QED
        BY <3>2, <4>1, <4>2
    <3>6. Running(c)'
      BY <2>2 DEF Running
    <3>7. Given(c)'
      BY <3>1, <3>4, <3>5, <3>6 DEF Given
    <3> QED
      BY <2>1, <3>7 DEF GivenInv, Given
  <2> QED
    BY <2>3, <2>4
<1>2. ASSUME NEW todo \in Todos, Opening(c, todo) PROVE GivenInv'
  <2>1. \A d \in Clients \ {c} : Given(d)'
    BY <1>2, GivenOthers DEF Opening, Launched
  <2>2. steps'[c] = MigrationSteps(c) \o todo /\ MigrationSteps(c) \o todo # <<>>
    BY <1>2, MigrationsTyped, OpenPlans DEF Opening, Launched
  <2>3. \A x : Due(c, x)' =>
          \/ x \in {"truncate_config", "write_config", "truncate_key", "write_key"}
          \/ In(todo, x)
    BY <2>2, OpenDue DEF Due
  <2>4. Running(c)'
    BY <2>2 DEF Running
  <2>5. CASE todo = ProtectSteps
    <3>1. \A x : In(todo, x) =>
            x \in {"truncate_wrapped", "write_wrapped", "remove_key", "set_wrapped",
                   "truncate_config", "write_config"}
      BY <2>5, Parts
    <3>2. /\ ~Due(c, "set_members")' /\ ~Due(c, "set_invite")' /\ ~Due(c, "load_policy")'
          /\ ~Due(c, "save_policy")' /\ ~Due(c, "set_min")'
      BY <2>3, <3>1
    <3>3. pass'[c] \in Passphrases
      BY <1>2, <2>5 DEF Opening
    <3>4. Given(c)'
      BY <2>4, <3>2, <3>3 DEF Given
    <3> QED
      BY <2>1, <3>4 DEF GivenInv, Given
  <2>6. CASE todo = PolicySteps
    <3>1. \A x : In(todo, x) =>
            x \in {"load_policy", "save_policy", "set_min", "truncate_config", "write_config"}
      BY <2>6, Parts
    <3>2. /\ ~Due(c, "set_members")' /\ ~Due(c, "set_invite")'
          /\ ~Due(c, "truncate_wrapped")' /\ ~Due(c, "write_wrapped")'
      BY <2>3, <3>1
    <3>3. wanted'[c] \in Replicas \cup {0} /\ wanted'[c] \in Nat
      <4>1. wanted'[c] \in Replicas \cup {0}
        BY <1>2, <2>6 DEF Opening
      <4>2. \A x \in Replicas \cup {0} : x \in Nat
        BY <1>r
      <4> QED
        BY <4>1, <4>2
    <3>4. Given(c)'
      BY <2>4, <3>2, <3>3 DEF Given
    <3> QED
      BY <2>1, <3>4 DEF GivenInv, Given
  <2>7. CASE todo \notin {ProtectSteps, PolicySteps}
    <3>1. todo = <<"set_members">> \o WriteConfig
      BY <2>7 DEF Todos
    <3>2. \A x : In(todo, x) => x \in {"set_members", "truncate_config", "write_config"}
      BY <3>1, Parts
    <3>3. /\ ~Due(c, "set_invite")' /\ ~Due(c, "load_policy")'
          /\ ~Due(c, "truncate_wrapped")' /\ ~Due(c, "write_wrapped")'
          /\ ~Due(c, "save_policy")' /\ ~Due(c, "set_min")'
      BY <2>3, <3>2
    <3>4. wanted'[c] \in Nodes
      BY <1>2, <2>7 DEF Opening
    <3>5. Given(c)'
      BY <2>4, <3>3, <3>4 DEF Given
    <3> QED
      BY <2>1, <3>5 DEF GivenInv, Given
  <2> QED
    BY <2>5, <2>6, <2>7
<1>3. CASE LoadPolicy(c)
  <2>1. /\ Turned(c, Tail(steps[c]), config[c], Intended(c)) /\ Does(c, "load_policy")
        /\ CurrentMin(c) \in Nat
    BY <1>a, <1>3, LoadTurn DEF CTypes, VaultFiles
  <2>2. \A d \in Clients \ {c} : Given(d)'
    BY <2>1, GivenOthers DEF Turned
  <2>3. /\ Leads(steps[c]) /\ Head(steps[c]) = "load_policy"
        /\ \A x : Due(c, x)' => Due(c, x)
        /\ \A x : In(Tail(steps[c]), x) <=> Due(c, x)'
    BY <1>a, <2>1, TurnDue DEF Does
  <2>4. ~Due(c, "load_policy")' /\ ~Due(c, "set_members")' /\ ~Due(c, "set_invite")'
    BY <2>3 DEF Leads
  <2>5. Due(c, "load_policy")
    BY <1>a, <2>1, DoesIsDue
  <2>6. Intended(c) \in Nat
    BY <2>1, <2>5, <1>r DEF GivenInv, Intended
  <2>7. CASE Tail(steps[c]) = <<>>
    BY <2>1, <2>2, <2>4, <2>7, TurnDone DEF Turned, GivenInv, Given
  <2>8. CASE Tail(steps[c]) # <<>>
    <3>1. pass'[c] = pass[c] /\ wanted'[c] = Intended(c) /\ Running(c)'
      BY <2>1, <2>8 DEF Turned, Running
    <3>2. Given(c)'
      BY <2>3, <2>4, <2>6, <3>1 DEF Given, GivenInv
    <3> QED
      BY <2>2, <3>2 DEF GivenInv, Given
  <2> QED
    BY <2>7, <2>8
<1>4. CASE ClientStep(c) /\ ~LoadPolicy(c)
  <2>1. PICK rest \in {Tail(steps[c]), <<>>}, cfg \in Config :
          Turned(c, rest, cfg, wanted[c])
    <3>1. CASE Plain(c)
      BY <1>a, <3>1, PlainTurn DEF Locals
    <3>2. CASE SetConfig(c)
      BY <1>a, <3>2, ChangeTurn, Changes
    <3>3. CASE SetMin(c)
      BY <1>a, <3>3, MinTurn, Changes DEF Locals
    <3>4. CASE KillClient(c)
      BY <1>a, <3>4, KillTurn, BlankType
    <3> QED
      BY <1>4, <3>1, <3>2, <3>3, <3>4 DEF ClientStep
  <2>2. \A d \in Clients \ {c} : Given(d)'
    BY <2>1, GivenOthers DEF Turned
  <2>3. \A x : Due(c, x)' => Due(c, x)
    BY <1>4, DueBefore
  <2>4. CASE rest = <<>>
    <3>1. \A x : ~Due(c, x)'
      BY <2>1, <2>4, TurnDone
    <3>2. pass'[c] = NoFileYet /\ wanted'[c] = 0
      BY <2>1, <2>4 DEF Turned
    <3>3. Given(c)'
      BY <3>1, <3>2 DEF Given
    <3> QED
      BY <2>2, <3>3 DEF GivenInv, Given
  <2>5. CASE rest # <<>>
    <3>1. pass'[c] = pass[c] /\ wanted'[c] = wanted[c] /\ Running(c)'
      BY <2>1, <2>5 DEF Turned, Running
    <3>2. Given(c)'
      BY <2>3, <3>1 DEF Given, GivenInv
    <3> QED
      BY <2>2, <3>2 DEF GivenInv, Given
  <2> QED
    BY <2>4, <2>5
<1> QED
  BY <1>0, <1>1, <1>2, <1>3, <1>4

-----------------------------------------------------------------------------
(* Making the vault                                                        *)

\* What a turn that takes the first step finds next.
LEMMA NextStep ==
  ASSUME Locals, CPlanInv, NEW c \in Clients, NEW cfg, NEW w,
         Turned(c, Tail(steps[c]), cfg, w)
  PROVE  /\ Does(c, "write_config")' => Does(c, "truncate_config")
         /\ Does(c, "write_key")' => Does(c, "truncate_key")
         /\ Does(c, "write_wrapped")' => Does(c, "truncate_wrapped")
         /\ Does(c, "remove_key")' => Does(c, "write_wrapped")
         /\ Does(c, "set_wrapped")' => Does(c, "remove_key")
         /\ Does(c, "truncate_config") => Does(c, "write_config")'
         /\ Does(c, "truncate_key") => Does(c, "write_key")'
         /\ Does(c, "truncate_wrapped") => Does(c, "write_wrapped")'
  BY TurnDue DEF Leads, Does, Turned

\* None of these is the first step of a plan.
Inner == {"write_config", "write_key", "write_wrapped", "remove_key", "set_wrapped"}

LEMMA LaunchStep ==
  ASSUME NEW c \in Clients,
         \/ \E plan \in MakePlans : Making(c, plan)
         \/ \E todo \in Todos : Opening(c, todo)
  PROVE  /\ ~Running(c) /\ Running(c)'
         /\ \A x \in Inner : ~Does(c, x)' /\ ~Does(c, x)
         /\ \A d \in Clients \ {c} : \A x : (Due(d, x) <=> Due(d, x)') /\ (Does(d, x) <=> Does(d, x)')
         /\ \A d \in Clients \ {c} : Running(d) <=> Running(d)'
         /\ \A d \in Clients \ {c} : config'[d] = config[d]
         /\ together' = (together \/ ~Quiescent)
         /\ UNCHANGED <<configFile, keyFile, wrappedFile, policyFile, born, halfWritten,
                        halfApplied, protected>>
<1>1. ASSUME NEW plan, Launched(c, plan), plan # <<>>, Head(plan) \notin Inner
      PROVE  /\ ~Running(c) /\ Running(c)' /\ \A x \in Inner : ~Does(c, x)' /\ ~Does(c, x)
             /\ \A d \in Clients \ {c} : \A x :
                  (Due(d, x) <=> Due(d, x)') /\ (Does(d, x) <=> Does(d, x)')
             /\ \A d \in Clients \ {c} : Running(d) <=> Running(d)'
             /\ \A d \in Clients \ {c} : config'[d] = config[d]
             /\ together' = (together \/ ~Quiescent)
  BY <1>1 DEF Launched, Running, Does, Due
<1>2. ASSUME NEW plan \in MakePlans, Making(c, plan)
      PROVE  /\ Launched(c, plan) /\ plan # <<>> /\ Head(plan) \notin Inner
             /\ UNCHANGED <<configFile, keyFile, wrappedFile, policyFile, born, halfWritten,
                            halfApplied, protected>>
  BY <1>2, MakePlansOrdered DEF Making, Inner
<1>3. ASSUME NEW todo \in Todos, Opening(c, todo)
      PROVE  /\ Launched(c, MigrationSteps(c) \o todo) /\ MigrationSteps(c) \o todo # <<>>
             /\ Head(MigrationSteps(c) \o todo) \notin Inner
             /\ UNCHANGED <<configFile, keyFile, wrappedFile, policyFile, born, halfWritten,
                            halfApplied, protected>>
  <2>1. Head(MigrationSteps(c) \o todo) \in
          {"truncate_config", "truncate_key", "truncate_wrapped", "load_policy", "set_members"}
        /\ MigrationSteps(c) \o todo # <<>>
    BY MigrationsTyped, OpenPlans
  <2>2. Head(MigrationSteps(c) \o todo) \notin Inner
    BY <2>1 DEF Inner
  <2> QED
    BY <1>3, <2>1, <2>2 DEF Opening, configFiles
<1> QED
  BY <1>1, <1>2, <1>3

\* The files and the directories, step by step.
LEMMA FileSteps ==
  ASSUME CTypes, CPlanInv, GivenInv, NEW c \in Clients, ClientStep(c)
  PROVE  /\ wrappedFile' = wrappedFile \/ Does(c, "truncate_wrapped") \/ Does(c, "write_wrapped")
         /\ Does(c, "truncate_wrapped") /\ ~KillClient(c) => wrappedFile' = Truncated
         /\ Does(c, "write_wrapped") /\ ~KillClient(c) =>
              wrappedFile' = [pass |-> pass[c], id |-> config[c].id]
         /\ keyFile' = keyFile \/ Does(c, "truncate_key") \/ Does(c, "write_key")
              \/ Does(c, "remove_key")
         /\ Does(c, "truncate_key") /\ ~KillClient(c) => keyFile' = "truncated"
         /\ Does(c, "write_key") /\ ~KillClient(c) =>
              keyFile' = IF keyFile = "absent" THEN "absent" ELSE "key"
         /\ Does(c, "remove_key") /\ ~KillClient(c) => keyFile' = "absent"
         /\ configFile' = configFile \/ Does(c, "truncate_config") \/ Does(c, "write_config")
         /\ Does(c, "truncate_config") /\ ~KillClient(c) => configFile' = Truncated
         /\ Does(c, "write_config") /\ ~KillClient(c) =>
              \/ configFile' = config[c]
              \/ configFile # Truncated /\ configFile' = Mixture
         /\ together' = together /\ halfWritten \subseteq halfWritten'
         /\ (folders' = folders /\ born' = born) \/ Does(c, "make_folders")
         /\ Does(c, "make_folders") /\ ~KillClient(c) => folders' = "all" /\ born' = TRUE
         /\ policyFile' = policyFile \/ Does(c, "load_policy") \/ Does(c, "save_policy")
         /\ KillClient(c) => UNCHANGED configFiles /\ born' = born
<1>0. KillClient(c) => UNCHANGED configFiles /\ born' = born
  BY DEF KillClient
<1>1. CASE TruncateFile(c)
  BY <1>0, <1>1 DEF TruncateFile, Does, configGhosts
<1>2. CASE FillConfig(c)
  BY <1>0, <1>2 DEF FillConfig, Does
<1>3. CASE FillKey(c)
  BY <1>0, <1>3 DEF FillKey, Does, configGhosts
<1>4. CASE FillWrapped(c)
  BY <1>0, <1>4 DEF FillWrapped, Does, configGhosts
<1>5. CASE RemoveKey(c)
  BY <1>0, <1>5 DEF RemoveKey, Does, configGhosts
<1>6. CASE MakeFolders(c)
  BY <1>0, <1>6 DEF MakeFolders, Does
<1>7. CASE SavePolicy(c)
  BY <1>0, <1>7 DEF SavePolicy, Does
<1>8. CASE SetConfig(c)
  BY <1>0, <1>8 DEF SetConfig, Does, configGhosts, configFiles
<1>9. CASE LoadPolicy(c)
  BY <1>0, <1>9 DEF LoadPolicy, Does, configGhosts
<1>10. CASE SetMin(c)
  BY <1>0, <1>10 DEF SetMin, Does, configFiles
<1>11. CASE KillClient(c)
  <2>1. UNCHANGED <<configFiles, together, born>> /\ halfWritten \subseteq halfWritten'
    BY <1>11 DEF KillClient
  <2> QED
    BY <1>0, <1>11, <2>1 DEF configFiles
<1> QED
  BY <1>1, <1>2, <1>3, <1>4, <1>5, <1>6, <1>7, <1>8, <1>9, <1>10, <1>11 DEF ClientStep, Plain

\* No command on the vault there is makes it, or makes its key but for the
\* migration.
LEMMA TodoSteps ==
  ASSUME NEW todo \in Todos
  PROVE  /\ ~In(todo, "make_folders") /\ ~In(todo, "set_invite")
         /\ ~In(todo, "truncate_key") /\ ~In(todo, "write_key")
<1>1. \A x : In(todo, x) =>
        x \in {"truncate_wrapped", "write_wrapped", "remove_key", "set_wrapped", "load_policy",
              "save_policy", "set_min", "set_members", "truncate_config", "write_config"}
  <2>1. CASE todo = ProtectSteps
    BY <2>1, Parts
  <2>2. CASE todo = PolicySteps
    BY <2>2, Parts
  <2>3. CASE todo = <<"set_members">> \o WriteConfig
    BY <2>3, Parts
  <2> QED
    BY <2>1, <2>2, <2>3 DEF Todos
<1> QED
  BY <1>1

\* The key is wrapped where the config says so.
LEMMA Wrapping ==
  ASSUME CTypes, CPlanInv, GivenInv, MakingInv, NEW c \in Clients, ClientStep(c)
  PROVE  /\ wrappedFile # NoFileYet => wrappedFile' # NoFileYet
         /\ \A d \in Clients :
              Does(d, "write_wrapped")' \/ Does(d, "remove_key")' \/ Does(d, "set_wrapped")'
                => wrappedFile' # NoFileYet
         /\ \A d \in Clients : Running(d)' /\ config'[d].wrapped => wrappedFile' # NoFileYet
         /\ Readable' /\ configFile'.wrapped => wrappedFile' # NoFileYet
<1>a. Locals /\ Running(c) /\ policyFile \in Nat /\ (Readable => configFile \in Config)
  BY StepTurn DEF CTypes, VaultFiles
<1>b. \A k \in WrappedKey : k # NoFileYet
  BY ConfigAssumption DEF Unreadable
<1>c. Does(c, "write_wrapped") /\ ~KillClient(c) => wrappedFile' \in WrappedKey
  <2>1. Does(c, "write_wrapped") => pass[c] \in Passphrases
    BY <1>a, DoesIsDue DEF GivenInv
  <2>2. config[c].id \in VaultIds
    BY <1>a DEF Locals, Config
  <2>3. Does(c, "write_wrapped") /\ ~KillClient(c) =>
          wrappedFile' = [pass |-> pass[c], id |-> config[c].id]
    BY FileSteps
  <2> QED
    BY <2>1, <2>2, <2>3 DEF WrappedKey
<1>1. wrappedFile # NoFileYet => wrappedFile' # NoFileYet
  <2>1. CASE KillClient(c)
    BY <1>a, <2>1, KillTurn DEF configFiles
  <2>2. CASE ~KillClient(c)
    <3>1. Truncated # NoFileYet
      BY ConfigAssumption
    <3>2. /\ wrappedFile' = wrappedFile \/ Does(c, "truncate_wrapped") \/ Does(c, "write_wrapped")
          /\ Does(c, "truncate_wrapped") => wrappedFile' = Truncated
      BY <2>2, FileSteps
    <3> QED
      BY <1>b, <1>c, <2>2, <3>1, <3>2
  <2> QED
    BY <2>1, <2>2
<1>2. ASSUME NEW d \in Clients,
             Does(d, "write_wrapped")' \/ Does(d, "remove_key")' \/ Does(d, "set_wrapped")'
      PROVE  wrappedFile' # NoFileYet
  <2>1. CASE d # c
    <3>1. Does(d, "write_wrapped") \/ Does(d, "remove_key") \/ Does(d, "set_wrapped")
      BY <1>2, <2>1, DueBefore
    <3> QED
      BY <1>1, <3>1 DEF MakingInv
  <2>2. CASE d = c
    <3>1. PICK rest, cfg, w : rest \in {Tail(steps[c]), <<>>} /\ cfg \in Config /\ Turned(c, rest, cfg, w)
      BY StepTurn
    <3>2. rest # <<>>
      BY <1>2, <2>2, <3>1, TurnDone
    <3>3. Turned(c, Tail(steps[c]), cfg, w)
      BY <3>1, <3>2
    <3>4. ~KillClient(c)
      <4>1. KillClient(c) => steps'[c] = <<>>
        BY <1>a, KillTurn DEF Turned
      <4> QED
        BY <3>1, <3>2, <4>1 DEF Turned
    <3>5. \/ Does(c, "truncate_wrapped")
          \/ Does(c, "write_wrapped")
          \/ Does(c, "remove_key")
      BY <1>a, <1>2, <2>2, <3>3, NextStep
    <3>6. CASE Does(c, "truncate_wrapped")
      <4>1. wrappedFile' = Truncated
        BY <3>4, <3>6, FileSteps
      <4> QED
        BY <4>1, ConfigAssumption
    <3>7. CASE Does(c, "write_wrapped")
      BY <1>b, <1>c, <3>4, <3>7
    <3>8. CASE Does(c, "remove_key")
      BY <1>1, <3>8 DEF MakingInv
    <3> QED
      BY <3>5, <3>6, <3>7, <3>8
  <2> QED
    BY <2>1, <2>2
<1>3. ASSUME NEW d \in Clients, Running(d)', config'[d].wrapped PROVE wrappedFile' # NoFileYet
  <2>1. CASE d # c
    <3>1. PICK rest, cfg, w : rest \in {Tail(steps[c]), <<>>} /\ cfg \in Config /\ Turned(c, rest, cfg, w)
      BY StepTurn
    <3>2. config'[d] = config[d] /\ Running(d)
      BY <1>3, <2>1, <3>1, DueBefore DEF Turned
    <3> QED
      BY <1>1, <1>3, <3>2 DEF MakingInv
  <2>2. CASE d = c
    <3>1. config[c].wrapped => wrappedFile # NoFileYet
      BY <1>a DEF MakingInv
    <3>2. Does(c, "set_wrapped") => wrappedFile # NoFileYet
      BY DEF MakingInv
    <3>3. config'[c].wrapped => config[c].wrapped \/ Does(c, "set_wrapped")
      <4>1. CASE Plain(c)
        BY <1>a, <1>3, <2>2, <4>1, PlainTurn DEF Turned, Running
      <4>2. CASE SetConfig(c)
        <5>1. \/ Does(c, "set_wrapped")
              \/ /\ Does(c, "set_members")
                 /\ Turned(c, Tail(steps[c]), Enrol(c), wanted[c])
              \/ /\ Does(c, "set_invite")
                 /\ Turned(c, Tail(steps[c]), Invited(c), wanted[c])
          BY <1>a, <4>2, ChangeTurn
        <5>2. /\ Does(c, "set_members") => Enrol(c).wrapped = config[c].wrapped
              /\ Does(c, "set_invite") => Invited(c).wrapped = config[c].wrapped
          BY <1>a, Changes
        <5>3. steps'[c] # <<>>
          BY <1>3, <2>2 DEF Running
        <5> QED
          BY <5>1, <5>2, <5>3 DEF Turned
      <4>3. CASE LoadPolicy(c)
        BY <1>a, <1>3, <2>2, <4>3, LoadTurn DEF Turned, Running
      <4>4. CASE SetMin(c)
        <5>1. /\ Does(c, "set_min")
              /\ \/ Turned(c, Tail(steps[c]), Lower(c), wanted[c])
                 \/ Turned(c, <<>>, config[c], wanted[c])
          BY <1>a, <4>4, MinTurn
        <5>2. Lower(c).wrapped = config[c].wrapped
          BY <1>a, <5>1, Changes
        <5>3. steps'[c] # <<>>
          BY <1>3, <2>2 DEF Running
        <5> QED
          BY <5>1, <5>2, <5>3 DEF Turned
      <4>5. CASE KillClient(c)
        BY <1>a, <1>3, <2>2, <4>5, KillTurn DEF Turned, Running
      <4> QED
        BY <4>1, <4>2, <4>3, <4>4, <4>5 DEF ClientStep
    <3> QED
      BY <1>1, <1>3, <2>2, <3>1, <3>2, <3>3
  <2> QED
    BY <2>1, <2>2
<1>4. ASSUME Readable', configFile'.wrapped PROVE wrappedFile' # NoFileYet
  <2>1. Truncated \in Unreadable /\ Mixture \in Unreadable
    BY DEF Unreadable
  <2>2. configFile' = configFile \/ (configFile' = config[c] /\ Does(c, "write_config"))
    <3>1. CASE KillClient(c)
      BY <1>a, <3>1, KillTurn DEF configFiles
    <3>2. CASE ~KillClient(c)
      <4>1. /\ configFile' = configFile \/ Does(c, "truncate_config") \/ Does(c, "write_config")
            /\ Does(c, "truncate_config") => configFile' = Truncated
            /\ Does(c, "write_config") => configFile' = config[c] \/ configFile' = Mixture
        BY <3>2, FileSteps
      <4>2. configFile' \notin Unreadable
        BY <1>4 DEF Readable
      <4> QED
        BY <2>1, <4>1, <4>2
    <3> QED
      BY <3>1, <3>2
  <2>3. CASE configFile' = configFile
    BY <1>1, <1>4, <2>3 DEF MakingInv, Readable
  <2>4. CASE configFile' = config[c]
    BY <1>1, <1>4, <1>a, <2>4 DEF MakingInv
  <2> QED
    BY <2>2, <2>3, <2>4
<1> QED
  BY <1>1, <1>2, <1>3, <1>4

LEMMA MakingInvNext ==
  ASSUME CTypes, CPlanInv, GivenInv, MakingInv, ConfigNext
  PROVE  MakingInv'
<1>0. PICK c \in Clients : \/ \E plan \in MakePlans : Making(c, plan)
                           \/ \E todo \in Todos : Opening(c, todo)
                           \/ ClientStep(c)
  BY NextIsStep
<1>a. Locals /\ (Readable => configFile \in Config) /\ born \in BOOLEAN
      /\ folders \in {"none", "root", "all"}
  BY DEF CTypes, VaultFiles, Ghosts
<1>1. ASSUME NEW plan \in MakePlans, Making(c, plan) PROVE MakingInv'
  <2>1. /\ folders = "none" /\ folders' = "root" /\ born' = born /\ config'[c].wrapped = FALSE
        /\ UNCHANGED <<configFile, wrappedFile>>
    BY <1>1 DEF Making
  <2>2. /\ ~born /\ Quiescent /\ configFile = NoFileYet /\ wrappedFile = NoFileYet
    BY <2>1 DEF MakingInv
  <2>3. \A d \in Clients \ {c} : ~Running(d)' /\ ~Running(d)
    BY <1>1, <2>2, LaunchStep DEF Quiescent
  <2>4. \A d \in Clients : \A x : Due(d, x)' => d = c
    <3>1. \A d \in Clients \ {c} : \A x : ~Due(d, x)
      BY <2>3, DueRuns
    <3> QED
      BY <1>1, <3>1, LaunchStep
  <2>5. \A d \in Clients : /\ ~Does(d, "write_wrapped")' /\ ~Does(d, "remove_key")'
                           /\ ~Does(d, "set_wrapped")'
    <3>1. \A d \in Clients \ {c} : \A x : ~Does(d, x)'
      BY <2>3 DEF Does, Running
    <3> QED
      BY <1>1, <3>1, LaunchStep DEF Inner
  <2>6. ~Readable'
    BY <2>1, <2>2 DEF Readable, Unreadable
  <2>7. \A d \in Clients : Running(d)' => ~config'[d].wrapped
    BY <2>1, <2>3
  <2> QED
    BY <2>1, <2>2, <2>4, <2>5, <2>6, <2>7 DEF MakingInv
<1>2. ASSUME NEW todo \in Todos, Opening(c, todo) PROVE MakingInv'
  <2>1. Readable
    BY <1>2 DEF Opening, Opens, Readable
  <2>2. UNCHANGED <<configFile, keyFile, wrappedFile, policyFile, folders, born>>
    BY <1>2 DEF Opening, configFiles
  <2>3. folders # "none"
    BY <2>1 DEF MakingInv, Readable, Unreadable
  <2>4. /\ \A d \in Clients : ~Due(d, "make_folders")' \/ (d # c /\ Due(d, "make_folders"))
    <3>1. ~Due(c, "make_folders")'
      <4>1. ~In(todo, "make_folders")
        BY TodoSteps
      <4>2. steps'[c] = MigrationSteps(c) \o todo
        BY <1>2 DEF Opening, Launched
      <4>3. ~In(MigrationSteps(c) \o todo, "make_folders")
        BY <4>1, OpenDue
      <4> QED
        BY <4>2, <4>3 DEF Due
    <3> QED
      BY <1>2, <3>1, LaunchStep
  <2>5. \A d \in Clients :
          Does(d, "write_wrapped")' \/ Does(d, "remove_key")' \/ Does(d, "set_wrapped")'
            => wrappedFile # NoFileYet
    BY <1>2, LaunchStep DEF Inner, MakingInv
  <2>6. \A d \in Clients : Running(d)' /\ config'[d].wrapped => wrappedFile # NoFileYet
    <3>1. config'[c].wrapped => wrappedFile # NoFileYet
      <4>1. config'[c].wrapped = (configFile.wrapped \/ UsesWrapped)
        BY <1>2, <1>a, <2>1, OpenedType DEF Opening
      <4>2. configFile.wrapped => wrappedFile # NoFileYet
        BY <2>1 DEF MakingInv
      <4> QED
        BY <4>1, <4>2 DEF UsesWrapped
    <3> QED
      BY <1>2, <3>1, LaunchStep DEF MakingInv
  <2>7. Readable' /\ configFile'.wrapped => wrappedFile # NoFileYet
    BY <2>2 DEF MakingInv, Readable
  <2>8. /\ born => folders = "all"
        /\ \A d \in Clients : Due(d, "make_folders") => ~born /\ folders = "root"
        /\ \A d, e \in Clients : Due(d, "make_folders") /\ Due(e, "make_folders") => d = e
    BY DEF MakingInv
  <2> QED
    BY <2>2, <2>3, <2>4, <2>5, <2>6, <2>7, <2>8 DEF MakingInv
<1>3. CASE ClientStep(c)
  <2>1. Running(c) /\ folders # "none"
    BY <1>3, StepTurn DEF MakingInv, Quiescent
  <2>2. /\ (folders' = folders /\ born' = born) \/ Does(c, "make_folders")
        /\ Does(c, "make_folders") /\ ~KillClient(c) => folders' = "all" /\ born' = TRUE
    BY <1>3, FileSteps
  <2>3. KillClient(c) => folders' = folders /\ born' = born
    BY <1>a, KillTurn DEF configFiles
  <2>4. folders' # "none" /\ (born' => folders' = "all")
    BY <2>1, <2>2, <2>3 DEF MakingInv
  <2>5. ASSUME NEW d \in Clients, Due(d, "make_folders")'
        PROVE  /\ ~born' /\ folders' = "root" /\ Due(d, "make_folders")
    <3>1. Due(d, "make_folders")
      BY <1>3, <2>5, DueBefore
    <3>2. ~born /\ folders = "root"
      BY <3>1 DEF MakingInv
    <3>3. CASE KillClient(c) \/ ~Does(c, "make_folders")
      BY <2>2, <2>3, <3>1, <3>2, <3>3
    <3>4. CASE ~KillClient(c) /\ Does(c, "make_folders")
      <4>1. d = c
        BY <1>a, <3>1, <3>4, DoesIsDue DEF MakingInv
      <4>2. PICK rest, cfg, w : rest \in {Tail(steps[c]), <<>>} /\ cfg \in Config /\ Turned(c, rest, cfg, w)
        BY <1>3, StepTurn
      <4>3. rest # <<>>
        BY <2>5, <4>1, <4>2, TurnDone
      <4>4. ~Due(c, "make_folders")'
        <5>1. Turned(c, Tail(steps[c]), cfg, w)
          BY <4>2, <4>3
        <5>2. Leads(steps[c]) /\ \A x : In(Tail(steps[c]), x) <=> Due(c, x)'
          BY <1>a, <5>1, TurnDue
        <5> QED
          BY <3>4, <5>2 DEF Leads, Does
      <4> QED
        BY <2>5, <4>1, <4>4
    <3> QED
      BY <3>3, <3>4
  <2>6. \A d, e \in Clients : Due(d, "make_folders")' /\ Due(e, "make_folders")' => d = e
    BY <2>5 DEF MakingInv
  <2> QED
    BY <1>3, <2>4, <2>5, <2>6, Wrapping DEF MakingInv
<1> QED
  BY <1>0, <1>1, <1>2, <1>3

-----------------------------------------------------------------------------
(* The key stays                                                           *)

\* A step is a turn, the return of a command with nothing to do, or a kill.
LEMMA Onward ==
  ASSUME CTypes, CPlanInv, GivenInv, NEW c \in Clients, ClientStep(c), ~KillClient(c)
  PROVE  \/ \E cfg \in Config : \E w : Turned(c, Tail(steps[c]), cfg, w)
         \/ Does(c, "set_min") /\ Turned(c, <<>>, config[c], wanted[c])
<1>1. Locals /\ policyFile \in Nat
  BY DEF CTypes, VaultFiles
<1>2. CASE Plain(c)
  BY <1>1, <1>2, PlainTurn DEF Locals
<1>3. CASE SetConfig(c)
  BY <1>1, <1>3, ChangeTurn, Changes
<1>4. CASE LoadPolicy(c)
  BY <1>1, <1>4, LoadTurn DEF Locals
<1>5. CASE SetMin(c)
  BY <1>1, <1>5, MinTurn, Changes DEF Locals
<1> QED
  BY <1>2, <1>3, <1>4, <1>5 DEF ClientStep

\* What a kill leaves behind.
LEMMA Killed ==
  ASSUME CTypes, NEW c \in Clients, KillClient(c)
  PROVE  /\ \A x \in {"write_config", "write_key", "write_wrapped"} :
              Does(c, x) => x \in halfWritten'
         /\ \A x : x \in halfWritten' => x \in halfWritten \/ Does(c, x)
         /\ ~Running(c)' /\ (\A x : ~Due(c, x)' /\ ~Does(c, x)')
         /\ UNCHANGED <<configFile, keyFile, wrappedFile, policyFile, folders, born, together,
                        protected>>
<1>1. /\ Running(c)
      /\ halfWritten' = halfWritten \cup
           ({Head(steps[c])} \cap {"write_config", "write_key", "write_wrapped"})
  BY DEF KillClient
<1>2. Turned(c, <<>>, Blank, wanted[c])
      /\ UNCHANGED <<configFile, keyFile, wrappedFile, policyFile, folders, born, together,
                     protected>>
  BY KillTurn DEF CTypes, configFiles
<1> QED
  BY <1>1, <1>2, TurnDone DEF Does

\* Only a kill leaves a file half written.
LEMMA WholeWrites ==
  ASSUME CTypes, CPlanInv, GivenInv, NEW c \in Clients, ClientStep(c), ~KillClient(c)
  PROVE  halfWritten' = halfWritten
<1>1. CASE Plain(c)
  BY <1>1 DEF Plain, TruncateFile, FillConfig, FillKey, FillWrapped, RemoveKey, MakeFolders,
              SavePolicy, configGhosts
<1>2. CASE SetConfig(c)
  BY <1>2 DEF SetConfig, configGhosts
<1>3. CASE LoadPolicy(c)
  BY <1>3 DEF LoadPolicy, configGhosts
<1>4. CASE SetMin(c)
  BY <1>4 DEF SetMin
<1> QED
  BY <1>1, <1>2, <1>3, <1>4 DEF ClientStep

LEMMA HalfWrittenGrows ==
  ASSUME CTypes, CPlanInv, GivenInv, NEW c \in Clients,
         \/ \E plan \in MakePlans : Making(c, plan)
         \/ \E todo \in Todos : Opening(c, todo)
         \/ ClientStep(c)
  PROVE  halfWritten \subseteq halfWritten' /\ (together => together') /\ (Spared' => Spared)
<1>1. halfWritten \subseteq halfWritten' /\ (together => together')
  <2>1. CASE ClientStep(c)
    BY <2>1, FileSteps
  <2>2. CASE ~ClientStep(c)
    BY <2>2, LaunchStep
  <2> QED
    BY <2>1, <2>2
<1> QED
  BY <1>1 DEF Spared

\* The wrapped key is lost only to a kill inside its write.
LEMMA WrapStays ==
  ASSUME CTypes, CPlanInv, GivenInv, NEW c \in Clients,
         \/ \E plan \in MakePlans : Making(c, plan)
         \/ \E todo \in Todos : Opening(c, todo)
         \/ ClientStep(c),
         "write_wrapped" \notin halfWritten', WrapSafe
  PROVE  WrapSafe'
<1>a. Locals
  BY DEF CTypes
<1>1. CASE ~ClientStep(c)
  <2>1. wrappedFile' = wrappedFile /\ \A d \in Clients :
          Does(d, "write_wrapped") => Does(d, "write_wrapped")'
    BY <1>1, LaunchStep DEF Inner
  <2> QED
    BY <2>1 DEF WrapSafe
<1>2. CASE ClientStep(c) /\ KillClient(c)
  <2>1. wrappedFile' = wrappedFile /\ ~Does(c, "write_wrapped")
    BY <1>2, Killed
  <2>2. \A d \in Clients : Does(d, "write_wrapped") => Does(d, "write_wrapped")'
    BY <1>2, <2>1, DueBefore
  <2> QED
    BY <2>1, <2>2 DEF WrapSafe
<1>3. CASE ClientStep(c) /\ ~KillClient(c)
  <2>1. CASE Does(c, "truncate_wrapped")
    <3>1. ~Does(c, "set_min")
      BY <2>1 DEF Does
    <3>2. Does(c, "write_wrapped")'
      BY <1>a, <1>3, <2>1, <3>1, Onward, NextStep
    <3> QED
      BY <3>2 DEF WrapSafe
  <2>2. CASE Does(c, "write_wrapped")
    <3>1. wrappedFile' = [pass |-> pass[c], id |-> config[c].id]
      BY <1>3, <2>2, FileSteps
    <3>2. pass[c] \in Passphrases /\ config[c].id \in VaultIds
      BY <1>a, <2>2, DoesIsDue DEF GivenInv, Locals, Config
    <3>3. wrappedFile' \in WrappedKey
      BY <3>1, <3>2 DEF WrappedKey
    <3>4. wrappedFile' \notin Unreadable
      BY <3>3, ConfigAssumption
    <3> QED
      BY <3>4 DEF WrapSafe
  <2>3. CASE ~Does(c, "truncate_wrapped") /\ ~Does(c, "write_wrapped")
    <3>1. wrappedFile' = wrappedFile
      BY <1>3, <2>3, FileSteps
    <3>2. \A d \in Clients : Does(d, "write_wrapped") => Does(d, "write_wrapped")'
      BY <1>3, <2>3, DueBefore
    <3> QED
      BY <3>1, <3>2 DEF WrapSafe
  <2> QED
    BY <2>1, <2>2, <2>3
<1> QED
  BY <1>1, <1>2, <1>3

\* The key is lost only to a kill inside its write.
LEMMA KeyStays ==
  ASSUME CTypes, CPlanInv, GivenInv, KeyInv, NEW c \in Clients,
         \/ \E plan \in MakePlans : Making(c, plan)
         \/ \E todo \in Todos : Opening(c, todo)
         \/ ClientStep(c),
         Spared', KeySafe
  PROVE  KeySafe' \/ (KillClient(c) /\ ClientStep(c) /\ Does(c, "write_key"))
<1>a. Locals
  BY DEF CTypes
<1>b. "write_wrapped" \notin halfWritten' /\ "write_wrapped" \notin halfWritten
  BY HalfWrittenGrows DEF Spared
<1>c. WrapSafe => KeySafe'
  BY <1>b, WrapStays DEF KeySafe
<1>1. CASE ~ClientStep(c)
  <2>1. keyFile' = keyFile /\ \A d \in Clients : Does(d, "write_key") => Does(d, "write_key")'
    BY <1>1, LaunchStep DEF Inner
  <2> QED
    BY <1>c, <2>1 DEF KeySafe
<1>2. CASE ClientStep(c) /\ KillClient(c)
  <2>1. keyFile' = keyFile
    BY <1>2, Killed
  <2>2. \A d \in Clients \ {c} : Does(d, "write_key") => Does(d, "write_key")'
    BY <1>2, DueBefore
  <2> QED
    BY <1>2, <1>c, <2>1, <2>2 DEF KeySafe
<1>3. CASE ClientStep(c) /\ ~KillClient(c)
  <2>1. CASE Does(c, "truncate_key")
    <3>1. ~Does(c, "set_min")
      BY <2>1 DEF Does
    <3>2. Does(c, "write_key")'
      BY <1>a, <1>3, <2>1, <3>1, Onward, NextStep
    <3> QED
      BY <3>2 DEF KeySafe
  <2>2. CASE Does(c, "write_key")
    <3>1. keyFile' = IF keyFile = "absent" THEN "absent" ELSE "key"
      BY <1>3, <2>2, FileSteps
    <3>2. keyFile = "absent" => WrapSafe
      BY <1>b, <2>2 DEF KeyInv
    <3> QED
      BY <1>c, <3>1, <3>2 DEF KeySafe
  <2>3. CASE Does(c, "remove_key")
    <3>1. WrapSafe
      BY <1>b, <2>3 DEF KeyInv
    <3> QED
      BY <1>c, <3>1
  <2>4. CASE ~Does(c, "truncate_key") /\ ~Does(c, "write_key") /\ ~Does(c, "remove_key")
    <3>1. keyFile' = keyFile
      BY <1>3, <2>4, FileSteps
    <3>2. \A d \in Clients : Does(d, "write_key") => Does(d, "write_key")'
      BY <1>3, <2>4, DueBefore
    <3> QED
      BY <1>c, <3>1, <3>2 DEF KeySafe
  <2> QED
    BY <2>1, <2>2, <2>3, <2>4
<1> QED
  BY <1>1, <1>2, <1>3

LEMMA HeadLeads ==
  ASSUME Locals, CPlanInv, NEW c \in Clients, Running(c)
  PROVE  /\ Leads(steps[c]) /\ (\A x : Does(c, x) <=> Head(steps[c]) = x)
         /\ \A x : Due(c, x) <=> Does(c, x) \/ In(Tail(steps[c]), x)
<1>1. steps[c] # <<>> /\ steps[c] \in Seq(StepNames) /\ Ordered(steps[c])
  BY DEF Locals, CPlanInv, Running
<1> QED
  BY <1>1, OrderedTail, InTail DEF Due, Does, Running

\* The key of an old vault that a command takes, or the one it makes.
LEMMA OpeningHasKey ==
  ASSUME NEW c \in Clients, NEW todo \in Todos, Opening(c, todo)
  PROVE  /\ Readable
         /\ \/ UsesWrapped /\ wrappedFile \notin Unreadable
            \/ ~UsesWrapped /\ keyFile = "key"
            \/ Embedded
         /\ Due(c, "write_key")' <=> Embedded
<1>1. PICK p \in Passphrases : Opens(c, p)
  BY DEF Opening
<1>2. steps'[c] = MigrationSteps(c) \o todo
  BY DEF Opening, Launched
<1>3. In(MigrationSteps(c) \o todo, "write_key") <=> Embedded
  BY OpenDue, TodoSteps
<1> QED
  BY <1>1, <1>2, <1>3 DEF Opens, Readable, Due

LEMMA MakingDue ==
  ASSUME NEW c \in Clients, NEW plan \in MakePlans, Making(c, plan)
  PROVE  Due(c, "write_key")' /\ Due(c, "make_folders")' /\ folders = "none"
<1>1. steps'[c] = plan /\ folders = "none"
  BY DEF Making, Launched
<1>2. In(plan, "write_key") /\ In(plan, "make_folders")
  <2>1. CASE plan = JoinSteps
    BY <2>1, InMakePlan
  <2>2. CASE plan = CreateSteps(TRUE)
    BY <2>2, InMakePlan
  <2>3. CASE plan = CreateSteps(FALSE)
    BY <2>3, InMakePlan
  <2> QED
    BY <2>1, <2>2, <2>3 DEF MakePlans
<1> QED
  BY <1>1, <1>2 DEF Due

\* Who has written the key to wrap it.
LEMMA WrapMade ==
  ASSUME CTypes, CPlanInv, GivenInv, NEW c \in Clients, ClientStep(c), ~KillClient(c),
         Does(c, "write_wrapped")
  PROVE  WrapSafe' /\ wrappedFile' \in WrappedKey /\ wrappedFile' \notin Unreadable
         /\ wrappedFile'.id = config[c].id
<1>1. wrappedFile' = [pass |-> pass[c], id |-> config[c].id]
  BY FileSteps
<1>2. pass[c] \in Passphrases /\ config[c].id \in VaultIds
  BY DoesIsDue DEF CTypes, GivenInv, Locals, Config
<1>3. wrappedFile' \in WrappedKey /\ wrappedFile'.id = config[c].id
  BY <1>1, <1>2 DEF WrappedKey
<1>4. wrappedFile' \notin Unreadable
  BY <1>3, ConfigAssumption
<1> QED
  BY <1>3, <1>4 DEF WrapSafe

LEMMA KeyInvNext ==
  ASSUME CTypes, CPlanInv, GivenInv, MakingInv, KeyInv, SerialInv, ConfigNext
  PROVE  KeyInv'
<1>0. PICK c \in Clients : \/ \E plan \in MakePlans : Making(c, plan)
                           \/ \E todo \in Todos : Opening(c, todo)
                           \/ ClientStep(c)
  BY NextIsStep
<1>a. Locals
  BY DEF CTypes
<1>b. halfWritten \subseteq halfWritten' /\ (together => together') /\ (Spared' => Spared)
  BY <1>0, HalfWrittenGrows
<1>1. ASSUME "write_wrapped" \notin halfWritten', NEW d \in Clients,
             (Does(d, "write_key")' /\ keyFile' = "absent") \/ Does(d, "remove_key")'
      PROVE  WrapSafe'
  <2>1. "write_wrapped" \notin halfWritten
    BY <1>1, <1>b
  <2>2. WrapSafe => WrapSafe'
    BY <1>0, <1>1, WrapStays
  <2>3. (Does(d, "write_key") /\ keyFile = "absent") \/ Does(d, "remove_key") => WrapSafe'
    BY <2>1, <2>2 DEF KeyInv
  <2>4. CASE ~ClientStep(c)
    <3>1. d # c
      BY <1>0, <1>1, <2>4, LaunchStep DEF Inner
    <3> QED
      BY <1>0, <1>1, <2>3, <2>4, <3>1, LaunchStep
  <2>5. CASE ClientStep(c) /\ KillClient(c)
    <3>1. d # c /\ keyFile' = keyFile
      BY <1>1, <2>5, Killed
    <3> QED
      BY <1>1, <2>3, <2>5, <3>1, DueBefore
  <2>6. CASE ClientStep(c) /\ ~KillClient(c)
    <3>1. CASE d = c
      <4>1. PICK cfg, w : cfg \in Config /\ Turned(c, Tail(steps[c]), cfg, w)
        BY <1>1, <2>6, <3>1, Onward, TurnDone
      <4>2. (Does(c, "write_key")' => Does(c, "truncate_key"))
            /\ (Does(c, "remove_key")' => Does(c, "write_wrapped"))
        BY <1>a, <4>1, NextStep
      <4>3. Does(c, "truncate_key") => keyFile' = "truncated"
        BY <2>6, FileSteps
      <4>4. Does(c, "write_wrapped") => WrapSafe'
        BY <2>6, WrapMade
      <4> QED
        BY <1>1, <3>1, <4>2, <4>3, <4>4
    <3>2. CASE d # c
      <4>1. (Does(d, "write_key")' <=> Does(d, "write_key"))
            /\ (Does(d, "remove_key")' <=> Does(d, "remove_key"))
        BY <2>6, <3>2, DueBefore
      <4>2. CASE Does(d, "remove_key")
        BY <2>3, <4>2
      <4>3. CASE Does(d, "write_key") /\ keyFile' = "absent"
        <5>1. /\ keyFile' = keyFile \/ Does(c, "truncate_key") \/ Does(c, "write_key")
                   \/ Does(c, "remove_key")
              /\ Does(c, "truncate_key") => keyFile' = "truncated"
              /\ Does(c, "write_key") => keyFile' = IF keyFile = "absent" THEN "absent" ELSE "key"
          BY <2>6, FileSteps
        <5>2. keyFile = "absent" \/ Does(c, "remove_key")
          BY <4>3, <5>1
        <5>3. Does(c, "remove_key") => WrapSafe'
          BY <2>1, <2>2 DEF KeyInv
        <5> QED
          BY <2>3, <4>3, <5>2, <5>3
      <4> QED
        BY <1>1, <4>1, <4>2, <4>3
    <3> QED
      BY <3>1, <3>2
  <2> QED
    BY <2>4, <2>5, <2>6
<1>2. ASSUME Spared', KeySafe, ~KeySafe'
      PROVE  KillClient(c) /\ ClientStep(c) /\ Does(c, "write_key") /\ ~together
  <2>1. KillClient(c) /\ ClientStep(c) /\ Does(c, "write_key")
    BY <1>0, <1>2, KeyStays
  <2>2. "write_key" \in halfWritten'
    BY <2>1, Killed
  <2> QED
    BY <1>2, <1>b, <2>1, <2>2 DEF Spared
<1>3. ASSUME Spared', NEW d \in Clients, Running(d)', ~KeySafe' PROVE Due(d, "write_key")'
  <2>1. CASE Running(d) /\ KeySafe
    <3>1. KillClient(c) /\ ClientStep(c) /\ Does(c, "write_key") /\ ~together
      BY <1>2, <1>3, <2>1
    <3>2. Running(c) /\ ~Running(c)'
      BY <3>1, Killed DEF Does
    <3>3. d = c
      BY <2>1, <3>1, <3>2 DEF SerialInv
    <3> QED
      BY <1>3, <3>2, <3>3
  <2>2. CASE Running(d) /\ ~KeySafe
    <3>1. Due(d, "write_key") /\ ~Does(d, "write_key")
      BY <1>b, <1>3, <2>2 DEF KeyInv, KeySafe
    <3>2. CASE d # c
      BY <1>0, <3>1, <3>2, DueBefore, LaunchStep
    <3>3. CASE d = c
      <4>1. ClientStep(c)
        BY <1>0, <2>2, <3>3, LaunchStep
      <4>2. ~KillClient(c)
        BY <1>3, <3>3, Killed
      <4>3. PICK cfg, w : cfg \in Config /\ Turned(c, Tail(steps[c]), cfg, w)
        BY <1>3, <3>3, <4>1, <4>2, Onward, TurnDone
      <4>4. In(Tail(steps[c]), "write_key")
        BY <1>a, <2>2, <3>1, <3>3, HeadLeads
      <4> QED
        BY <1>a, <3>3, <4>3, <4>4, TurnDue
    <3> QED
      BY <3>2, <3>3
  <2>3. CASE ~Running(d)
    <3>1. d = c /\ ~ClientStep(c)
      BY <1>0, <1>3, <2>3, DueBefore, LaunchStep
    <3>2. CASE \E plan \in MakePlans : Making(c, plan)
      BY <3>1, <3>2, MakingDue
    <3>3. CASE \E todo \in Todos : Opening(c, todo)
      <4>1. PICK todo \in Todos : Opening(c, todo)
        BY <3>3
      <4>2. CASE Embedded
        BY <3>1, <4>1, <4>2, OpeningHasKey
      <4>3. CASE ~Embedded
        <5>1. KeySafe
          BY <4>1, <4>3, OpeningHasKey DEF KeySafe, WrapSafe
        <5> QED
          BY <1>2, <1>3, <3>1, <5>1
      <4> QED
        BY <4>2, <4>3
    <3> QED
      BY <1>0, <3>1, <3>2, <3>3
  <2> QED
    BY <2>1, <2>2, <2>3
<1>4. ASSUME Spared', born', ~KeySafe' PROVE Readable' /\ configFile'.embedded
  <2>1. CASE KeySafe
    <3>1. KillClient(c) /\ ClientStep(c) /\ Does(c, "write_key") /\ ~together
      BY <1>2, <1>4, <2>1
    <3>2. Due(c, "write_key") /\ configFile' = configFile /\ born' = born
      BY <1>a, <3>1, Killed, DoesIsDue
    <3>3. ~Due(c, "make_folders")
      BY <1>4, <3>2 DEF MakingInv
    <3> QED
      BY <3>1, <3>2, <3>3 DEF SerialInv, Readable
  <2>2. CASE ~KeySafe /\ born
    <3>1. Readable /\ configFile.embedded
      BY <1>b, <1>4, <2>2 DEF KeyInv
    <3>2. CASE configFile' = configFile
      BY <3>1, <3>2 DEF Readable
    <3>3. CASE configFile' # configFile
      <4>1. ClientStep(c)
        BY <1>0, <3>3, LaunchStep
      <4>2. Does(c, "truncate_config") \/ Does(c, "write_config")
        BY <3>3, <4>1, FileSteps
      <4>3. Running(c)
        BY <4>2 DEF Does
      <4>4. Due(c, "write_key") /\ ~Does(c, "write_key")
        BY <1>b, <1>4, <2>2, <4>3 DEF KeyInv, KeySafe
      <4>5. Due(c, "make_folders")
        BY <1>a, <4>2, <4>3, <4>4, HeadLeads DEF Leads
      <4> QED
        BY <2>2, <4>5 DEF MakingInv
    <3> QED
      BY <3>2, <3>3
  <2>3. CASE ~KeySafe /\ ~born
    <3>1. ClientStep(c)
      BY <1>0, <1>4, <2>3, LaunchStep
    <3>2. Does(c, "make_folders")
      BY <1>4, <2>3, <3>1, FileSteps
    <3>3. Running(c)
      BY <3>2 DEF Does
    <3>4. Due(c, "write_key") /\ ~Does(c, "write_key")
      BY <1>b, <1>4, <2>3, <3>3 DEF KeyInv, KeySafe
    <3>5. FALSE
      BY <1>a, <3>2, <3>3, <3>4, HeadLeads DEF Leads
    <3> QED
      BY <3>5
  <2> QED
    BY <2>1, <2>2, <2>3
<1> QED
  BY <1>1, <1>3, <1>4 DEF KeyInv


-----------------------------------------------------------------------------
(* One command at a time                                                   *)

\* Whose turn it is, as long as no two commands overlap.
LEMMA OnlyClient ==
  ASSUME CTypes, CPlanInv, GivenInv, SerialInv, ~together', NEW c \in Clients,
         \/ \E plan \in MakePlans : Making(c, plan)
         \/ \E todo \in Todos : Opening(c, todo)
         \/ ClientStep(c)
  PROVE  /\ ~together
         /\ ~ClientStep(c) => Quiescent
         /\ ClientStep(c) => Running(c)
         /\ \A d \in Clients : Running(d) \/ Running(d)' => d = c
         /\ \A d \in Clients : \A x : Due(d, x)' \/ Does(d, x)' => d = c
<1>1. ~together
  BY HalfWrittenGrows
<1>2. ~ClientStep(c) => Quiescent
  BY LaunchStep
<1>3. ClientStep(c) => Running(c)
  BY StepTurn
<1>4. \A d \in Clients : Running(d) => d = c
  BY <1>1, <1>2, <1>3 DEF SerialInv, Quiescent
<1>5. \A d \in Clients \ {c} : Running(d)' => Running(d)
  BY LaunchStep, DueBefore
<1>6. ASSUME NEW d \in Clients, NEW x, Due(d, x)' \/ Does(d, x)' PROVE Running(d)'
  BY <1>6, NothingLeft DEF Due, Does, Running
<1> QED
  BY <1>1, <1>2, <1>3, <1>4, <1>5, <1>6

LEMMA SerialInvNext ==
  ASSUME CTypes, CPlanInv, GivenInv, MakingInv, SerialInv, ConfigNext
  PROVE  SerialInv'
<1>0. PICK c \in Clients : \/ \E plan \in MakePlans : Making(c, plan)
                           \/ \E todo \in Todos : Opening(c, todo)
                           \/ ClientStep(c)
  BY NextIsStep
<1>a. Locals
  BY DEF CTypes
<1> SUFFICES ASSUME ~together'
             PROVE  /\ \A d, e \in Clients : Running(d)' /\ Running(e)' => d = e
                    /\ \A d \in Clients : Does(d, "write_config")' => configFile' = Truncated
                    /\ \A d \in Clients : Due(d, "write_key")' =>
                         /\ wrappedFile' = NoFileYet
                         /\ Due(d, "make_folders")' \/ (Readable' /\ configFile'.embedded)
                         /\ Does(d, "write_key")' => keyFile' = "truncated"
                    /\ "write_key" \in halfWritten' =>
                         /\ Quiescent' /\ keyFile' = "truncated" /\ wrappedFile' = NoFileYet
                         /\ folders' # "none"
                         /\ born' => Readable' /\ configFile'.embedded
  BY DEF SerialInv
<1>b. /\ ~together /\ (~ClientStep(c) => Quiescent) /\ (ClientStep(c) => Running(c))
      /\ \A d \in Clients : Running(d) \/ Running(d)' => d = c
      /\ \A d \in Clients : \A x : Due(d, x)' \/ Does(d, x)' => d = c
  BY <1>0, OnlyClient
<1>c. /\ \A d \in Clients : Does(d, "write_config") => configFile = Truncated
      /\ \A d \in Clients : Due(d, "write_key") =>
           /\ wrappedFile = NoFileYet
           /\ Due(d, "make_folders") \/ (Readable /\ configFile.embedded)
           /\ Does(d, "write_key") => keyFile = "truncated"
      /\ "write_key" \in halfWritten =>
           /\ Quiescent /\ keyFile = "truncated" /\ wrappedFile = NoFileYet /\ folders # "none"
           /\ born => Readable /\ configFile.embedded
  BY <1>b DEF SerialInv
<1>1. CASE ~ClientStep(c)
  <2>1. /\ ~Does(c, "write_config")' /\ ~Does(c, "write_key")'
        /\ UNCHANGED <<configFile, keyFile, wrappedFile, born, halfWritten>>
    BY <1>0, <1>1, LaunchStep DEF Inner
  <2>2. CASE \E plan \in MakePlans : Making(c, plan)
    <3>1. Due(c, "make_folders")' /\ folders = "none"
      BY <2>2, MakingDue
    <3>2. wrappedFile = NoFileYet
      BY <3>1 DEF MakingInv
    <3>3. "write_key" \notin halfWritten
      BY <1>c, <3>1
    <3> QED
      BY <1>b, <2>1, <3>1, <3>2, <3>3
  <2>3. CASE \E todo \in Todos : Opening(c, todo)
    <3>1. /\ Readable
          /\ \/ UsesWrapped /\ wrappedFile \notin Unreadable
             \/ ~UsesWrapped /\ keyFile = "key"
             \/ Embedded
          /\ Due(c, "write_key")' => Embedded
      BY <2>3, OpeningHasKey
    <3>2. Embedded => /\ wrappedFile = NoFileYet /\ configFile.embedded /\ keyFile = "absent"
      BY DEF Embedded, UsesWrapped
    <3>3. "write_key" \notin halfWritten
      BY <1>c, <3>1, <3>2 DEF Unreadable
    <3>4. Readable' /\ configFile'.embedded = configFile.embedded
      BY <2>1, <3>1 DEF Readable
    <3> QED
      BY <1>b, <2>1, <3>1, <3>2, <3>3, <3>4
  <2> QED
    BY <1>0, <1>1, <2>2, <2>3
<1>2. CASE ClientStep(c) /\ KillClient(c)
  <2>1. /\ ~Running(c)' /\ (\A x : ~Due(c, x)' /\ ~Does(c, x)')
        /\ "write_key" \in halfWritten' => "write_key" \in halfWritten \/ Does(c, "write_key")
        /\ UNCHANGED <<configFile, keyFile, wrappedFile, folders, born>>
    BY <1>2, Killed
  <2>2. Quiescent'
    BY <1>b, <2>1 DEF Quiescent
  <2>3. "write_key" \notin halfWritten
    BY <1>2, <1>b, <1>c DEF Quiescent
  <2>4. folders # "none"
    BY <1>2, <1>b DEF MakingInv, Quiescent
  <2>5. Does(c, "write_key") =>
          /\ wrappedFile = NoFileYet /\ keyFile = "truncated"
          /\ born => Readable /\ configFile.embedded
    <3>1. Does(c, "write_key") => Due(c, "write_key")
      BY <1>a, DoesIsDue
    <3>2. born => ~Due(c, "make_folders")
      BY DEF MakingInv
    <3> QED
      BY <1>c, <3>1, <3>2
  <2> QED
    BY <1>b, <2>1, <2>2, <2>3, <2>4, <2>5 DEF Readable
<1>3. CASE ClientStep(c) /\ ~KillClient(c)
  <2>1. "write_key" \notin halfWritten'
    BY <1>3, <1>b, <1>c, WholeWrites DEF Quiescent
  <2>2. Does(c, "write_config")' => configFile' = Truncated
    <3>1. ASSUME Does(c, "write_config")' PROVE Does(c, "truncate_config")
      <4>1. PICK cfg, w : cfg \in Config /\ Turned(c, Tail(steps[c]), cfg, w)
        BY <1>3, <3>1, Onward, TurnDone
      <4> QED
        BY <1>a, <3>1, <4>1, NextStep
    <3> QED
      BY <1>3, <3>1, FileSteps
  <2>3. ASSUME Due(c, "write_key")'
        PROVE  /\ wrappedFile' = NoFileYet
               /\ Due(c, "make_folders")' \/ (Readable' /\ configFile'.embedded)
               /\ Does(c, "write_key")' => keyFile' = "truncated"
    <3>1. PICK cfg, w : cfg \in Config /\ Turned(c, Tail(steps[c]), cfg, w)
      BY <1>3, <2>3, Onward, TurnDone
    <3>2. /\ Leads(steps[c]) /\ In(Tail(steps[c]), "write_key")
          /\ Due(c, "make_folders") => Head(steps[c]) = "make_folders" \/ Due(c, "make_folders")'
          /\ In(Tail(steps[c]), "make_folders") => Due(c, "make_folders")'
      BY <1>a, <2>3, <3>1, TurnDue
    <3>3. Head(steps[c]) \notin {"make_folders", "truncate_wrapped", "write_wrapped"}
          /\ (Head(steps[c]) \in {"truncate_config", "write_config"} => Due(c, "make_folders")')
      BY <3>2 DEF Leads
    <3>4. Due(c, "write_key")
      BY <1>3, <2>3, DueBefore
    <3>5. \A x : Does(c, x) <=> Head(steps[c]) = x
      BY <1>3, <1>b DEF Does
    <3>6. /\ wrappedFile' = wrappedFile
          /\ configFile' = configFile \/ Does(c, "truncate_config") \/ Does(c, "write_config")
          /\ Does(c, "truncate_key") => keyFile' = "truncated"
      BY <1>3, <3>3, <3>5, FileSteps
    <3>7. Does(c, "write_key")' => Does(c, "truncate_key")
      BY <1>a, <3>1, NextStep
    <3>8. configFile' = configFile \/ Due(c, "make_folders")'
      BY <3>3, <3>5, <3>6
    <3>9. Due(c, "make_folders") => Due(c, "make_folders")'
      BY <3>2, <3>3
    <3> QED
      BY <1>c, <3>4, <3>6, <3>7, <3>8, <3>9 DEF Readable
  <2> QED
    BY <1>b, <2>1, <2>2, <2>3
<1> QED
  BY <1>1, <1>2, <1>3

-----------------------------------------------------------------------------
(* The signature is kept up                                                *)

Changing == {"set_wrapped", "set_members", "set_min"}

\* SignInv, of one client.
Signing(c) ==
  /\ DatedConfig(config[c]) /\ config[c].id # NoId /\ config[c].seq > 0
  /\ Due(c, "set_invite") => config[c].signature = NoSignature
  /\ Covering(config[c]) \/ Before(steps[c], Changing, {"write_config"})

LEMMA SignedAnew ==
  ASSUME NEW cfg \in Config, NEW new \in Config, DatedConfig(cfg), cfg.id # NoId, cfg.seq > 0,
         new.id = cfg.id, new.seq = cfg.seq + 1,
         new.signature = Cover(new) \/ new.signature = cfg.signature
  PROVE  DatedConfig(new) /\ Covering(new) /\ new.id # NoId /\ new.seq > 0
<1>1. cfg.seq \in Nat /\ (cfg.signature # NoSignature => cfg.signature.seq \in Nat)
  BY DEF Config, Covered
<1>2. CASE new.signature = Cover(new)
  <2>1. new.signature.seq = new.seq
    BY <1>2 DEF Cover
  <2> QED
    BY <1>1, <1>2, <2>1 DEF DatedConfig, Covering
<1>3. CASE new.signature = cfg.signature
  BY <1>1, <1>3 DEF DatedConfig, Covering
<1> QED
  BY <1>2, <1>3

\* A first step that changes nothing leaves what is to be signed.
LEMMA UnsignedStays ==
  ASSUME Locals, CPlanInv, NEW c \in Clients, NEW w, Turned(c, Tail(steps[c]), config[c], w),
         Head(steps[c]) \notin Changing, Signing(c), Running(c)'
  PROVE  Signing(c)'
<1>1. steps[c] \in Seq(StepNames) /\ steps[c] # <<>> /\ steps'[c] = Tail(steps[c])
      /\ Tail(steps[c]) # <<>> /\ config'[c] = config[c]
  BY DEF Turned, Running, Locals
<1>2. Before(steps[c], Changing, {"write_config"}) => Before(steps'[c], Changing, {"write_config"})
  BY <1>1, BeforeTail
<1>3. Due(c, "set_invite")' => Due(c, "set_invite")
  BY TurnDue
<1> QED
  BY <1>1, <1>2, <1>3 DEF Signing

LEMMA SignInvNext ==
  ASSUME CTypes, CPlanInv, GivenInv, SignInv, ConfigNext
  PROVE  SignInv'
<1>0. PICK c \in Clients : \/ \E plan \in MakePlans : Making(c, plan)
                           \/ \E todo \in Todos : Opening(c, todo)
                           \/ ClientStep(c)
  BY NextIsStep
<1>a. Locals /\ (Readable => configFile \in Config) /\ policyFile \in Nat
  BY DEF CTypes, VaultFiles
<1>b. /\ Readable => DatedConfig(configFile) /\ Covering(configFile)
      /\ \A d \in Clients : Running(d) => Signing(d)
  BY DEF SignInv, Signing, Changing
<1>c. ASSUME NEW d \in Clients, steps'[d] = steps[d], config'[d] = config[d], Running(d)'
      PROVE  Signing(d)'
  BY <1>b, <1>c DEF Signing, Running, Due
<1>d. SUFFICES /\ Readable' => DatedConfig(configFile') /\ Covering(configFile')
               /\ Running(c)' => Signing(c)'
               /\ \A d \in Clients \ {c} : steps'[d] = steps[d] /\ config'[d] = config[d]
  BY <1>c DEF SignInv, Signing, Changing
<1>1. ASSUME NEW plan \in MakePlans, Making(c, plan)
      PROVE  /\ Readable' => DatedConfig(configFile') /\ Covering(configFile')
             /\ Running(c)' => Signing(c)'
             /\ \A d \in Clients \ {c} : steps'[d] = steps[d] /\ config'[d] = config[d]
  <2>1. /\ configFile' = configFile /\ steps'[c] = plan
        /\ \A d \in Clients \ {c} : steps'[d] = steps[d] /\ config'[d] = config[d]
    BY <1>1 DEF Making, Launched
  <2>2. /\ config'[c].id = FirstId /\ config'[c].seq = 1
        /\ config'[c].signature \in {NoSignature, Cover(config'[c])}
    BY <1>1 DEF Making
  <2>3. Cover(config'[c]).seq = config'[c].seq
    BY DEF Cover
  <2>4. DatedConfig(config'[c]) /\ Covering(config'[c]) /\ config'[c].id # NoId /\ config'[c].seq > 0
    BY <2>2, <2>3, ConfigAssumption DEF DatedConfig, Covering
  <2>5. Due(c, "set_invite")' => config'[c].signature = NoSignature
    <3>1. CASE plan = JoinSteps
      BY <1>1, <3>1 DEF Making
    <3>2. CASE plan = CreateSteps(TRUE)
      <4>1. ~In(plan, "set_invite")
        BY <3>2, InMakePlan
      <4> QED
        BY <2>1, <4>1 DEF Due
    <3>3. CASE plan = CreateSteps(FALSE)
      <4>1. ~In(plan, "set_invite")
        <5>1. \A x : In(plan, x) =>
                x \in {"truncate_config", "write_config", "truncate_key", "write_key",
                       "make_folders", "save_policy"}
          BY <3>3, InMakePlan
        <5> QED
          BY <5>1
      <4> QED
        BY <2>1, <4>1 DEF Due
    <3> QED
      BY <3>1, <3>2, <3>3 DEF MakePlans
  <2> QED
    BY <1>b, <2>1, <2>4, <2>5 DEF Signing, Readable
<1>2. ASSUME NEW todo \in Todos, Opening(c, todo)
      PROVE  /\ Readable' => DatedConfig(configFile') /\ Covering(configFile')
             /\ Running(c)' => Signing(c)'
             /\ \A d \in Clients \ {c} : steps'[d] = steps[d] /\ config'[d] = config[d]
  <2>1. /\ configFile' = configFile /\ steps'[c] = MigrationSteps(c) \o todo
        /\ \A d \in Clients \ {c} : steps'[d] = steps[d] /\ config'[d] = config[d]
        /\ config'[c] = Opened(c)
    BY <1>2 DEF Opening, Launched, configFiles
  <2>2. Readable /\ configFile \in Config /\ DatedConfig(configFile) /\ Covering(configFile)
    BY <1>a, <1>b, <1>2, OpeningHasKey
  <2>3. /\ Opened(c).id = Id(c) /\ Opened(c).id # NoId
        /\ Opened(c).seq = IF configFile.seq = 0 THEN 1 ELSE configFile.seq
        /\ Opened(c).seq > 0
        /\ Opened(c).min = configFile.min /\ Opened(c).members = configFile.members
        /\ Opened(c).wrapped = (configFile.wrapped \/ UsesWrapped)
        /\ Opened(c).signature = configFile.signature
    BY <2>2, OpenedType
  <2>4. configFile.seq \in Nat
        /\ (configFile.signature # NoSignature => configFile.signature.seq \in Nat)
        /\ configFile.wrapped \in BOOLEAN
    BY <2>2 DEF Config, Covered
  <2>5. DatedConfig(Opened(c))
    BY <2>2, <2>3, <2>4 DEF DatedConfig
  <2>6. ~Due(c, "set_invite")'
    <3>1. ~In(MigrationSteps(c) \o todo, "set_invite")
      BY OpenDue, TodoSteps
    <3> QED
      BY <2>1, <3>1 DEF Due
  <2>7. CASE MigrationSteps(c) = <<>> \o <<>>
    <3>1. Before(MigrationSteps(c) \o todo, {"set_wrapped", "set_members", "set_min"},
                 {"write_config"})
      BY <2>7, MigrationsTyped, OpenPlans
    <3>2. Before(steps'[c], Changing, {"write_config"})
      BY <2>1, <3>1 DEF Changing
    <3> QED
      BY <2>1, <2>2, <2>3, <2>5, <2>6, <3>2 DEF Signing
  <2>8. CASE MigrationSteps(c) # <<>> \o <<>>
    <3>1. Embedded \/ configFile.id = NoId \/ configFile.seq = 0
      BY <2>8, MigrationsTyped
    <3>2. Covering(Opened(c))
      <4>1. CASE configFile.signature = NoSignature
        BY <2>3, <4>1 DEF Covering
      <4>2. CASE configFile.signature # NoSignature
        <5>1. configFile.id # NoId /\ configFile.seq # 0
          BY <2>2, <2>4, <4>2 DEF DatedConfig
        <5>2. ~UsesWrapped
          BY <3>1, <5>1 DEF Embedded
        <5>3. /\ Opened(c).id = configFile.id /\ Opened(c).seq = configFile.seq
              /\ Opened(c).wrapped = configFile.wrapped
          BY <2>3, <2>4, <5>1, <5>2 DEF Id
        <5>4. Cover(Opened(c)) = Cover(configFile)
          BY <2>3, <5>3 DEF Cover
        <5> QED
          BY <2>2, <2>3, <5>3, <5>4 DEF Covering
      <4> QED
        BY <4>1, <4>2
    <3> QED
      BY <2>1, <2>2, <2>3, <2>5, <2>6, <3>2 DEF Signing
  <2> QED
    BY <2>7, <2>8
<1>3. CASE ClientStep(c)
  <2>1. \A d \in Clients \ {c} : steps'[d] = steps[d] /\ config'[d] = config[d]
    BY <1>3, StepTurn DEF Turned
  <2>2. Running(c) /\ Signing(c)
    BY <1>3, <1>b, StepTurn
  <2>3. config[c] \in Config /\ steps[c] \in Seq(StepNames) /\ steps[c] # <<>>
    BY <1>a, <2>2 DEF Locals, Running
  <2>4. Readable' => DatedConfig(configFile') /\ Covering(configFile')
    <3>1. Truncated \in Unreadable /\ Mixture \in Unreadable
      BY DEF Unreadable
    <3>2. CASE configFile' = configFile
      BY <1>b, <3>2 DEF Readable
    <3>3. CASE configFile' # configFile
      <4>1. ~KillClient(c)
        BY <1>3, <3>3, FileSteps DEF configFiles
      <4>2. \/ Does(c, "truncate_config") /\ configFile' = Truncated
            \/ /\ Does(c, "write_config")
               /\ configFile' = config[c] \/ configFile' = Mixture
        BY <1>3, <3>3, <4>1, FileSteps
      <4>3. CASE Does(c, "write_config") /\ configFile' = config[c]
        <5>1. ~Before(steps[c], Changing, {"write_config"})
          BY <2>3, <4>3, BeforeTail DEF Does
        <5> QED
          BY <2>2, <4>3, <5>1 DEF Signing
      <4> QED
        BY <3>1, <4>2, <4>3 DEF Readable
    <3> QED
      BY <3>2, <3>3
  <2>5. ASSUME Running(c)' PROVE Signing(c)'
    <3>1. CASE Plain(c)
      <4>1. Turned(c, Tail(steps[c]), config[c], wanted[c])
        BY <1>a, <3>1, PlainTurn
      <4>2. Head(steps[c]) \notin Changing
        BY <3>1 DEF Changing, Plain, TruncateFile, FillConfig, FillKey, FillWrapped, RemoveKey,
                    MakeFolders, SavePolicy, Does
      <4> QED
        BY <1>a, <2>2, <2>5, <4>1, <4>2, UnsignedStays
    <3>2. CASE LoadPolicy(c)
      <4>1. Turned(c, Tail(steps[c]), config[c], Intended(c)) /\ Does(c, "load_policy")
        BY <1>a, <3>2, LoadTurn
      <4>2. Head(steps[c]) \notin Changing
        BY <4>1 DEF Changing, Does
      <4> QED
        BY <1>a, <2>2, <2>5, <4>1, <4>2, UnsignedStays
    <3>3. CASE SetConfig(c) \/ SetMin(c)
      <4>1. PICK new \in {Wrap(c), Enrol(c), Invited(c), Lower(c)} :
              /\ Turned(c, Tail(steps[c]), new, wanted[c])
              /\ \/ new = Wrap(c) /\ Does(c, "set_wrapped")
                 \/ new = Enrol(c) /\ Does(c, "set_members")
                 \/ new = Invited(c) /\ Does(c, "set_invite")
                 \/ new = Lower(c) /\ Does(c, "set_min")
        <5>1. CASE SetConfig(c)
          BY <1>a, <5>1, ChangeTurn
        <5>2. CASE SetMin(c)
          BY <1>a, <2>5, <5>2, MinTurn, TurnDone
        <5> QED
          BY <3>3, <5>1, <5>2
      <4>2. config'[c] = new /\ steps'[c] = Tail(steps[c])
        BY <2>5, <4>1 DEF Turned, Running
      <4>3. CASE Does(c, "set_invite")
        <5>1. new = Invited(c)
          BY <4>1, <4>3 DEF Does
        <5>2. /\ new.id = config[c].id /\ new.seq > 0 /\ new.signature = config[c].signature
          BY <1>a, <4>3, <5>1, Changes
        <5>3. new.signature = NoSignature
          BY <1>a, <2>2, <4>3, <5>2, DoesIsDue DEF Signing
        <5> QED
          BY <2>2, <4>2, <5>2, <5>3 DEF Signing, DatedConfig, Covering
      <4>4. CASE ~Does(c, "set_invite")
        <5>1. /\ new \in Config /\ new.id = config[c].id /\ new.seq = config[c].seq + 1
              /\ new.signature = Cover(new) \/ new.signature = config[c].signature
          BY <1>a, <4>1, <4>4, Changes
        <5>2. DatedConfig(new) /\ Covering(new) /\ new.id # NoId /\ new.seq > 0
          BY <2>2, <2>3, <5>1, SignedAnew DEF Signing
        <5>3. ~Due(c, "set_invite")'
          <6>1. Leads(steps[c]) /\ \A x : In(Tail(steps[c]), x) <=> Due(c, x)'
            BY <1>a, <4>1, TurnDue
          <6>2. Head(steps[c]) \in {"set_wrapped", "set_members", "set_min"}
            BY <4>1, <4>4 DEF Does
          <6> QED
            BY <6>1, <6>2 DEF Leads
        <5> QED
          BY <4>2, <5>2, <5>3 DEF Signing
      <4> QED
        BY <4>3, <4>4
    <3>4. CASE KillClient(c)
      BY <2>5, <3>4, Killed DEF CTypes
    <3> QED
      BY <1>3, <3>1, <3>2, <3>3, <3>4 DEF ClientStep
  <2> QED
    BY <2>1, <2>4, <2>5
<1> QED
  BY <1>0, <1>1, <1>2, <1>3

-----------------------------------------------------------------------------
(* The files fit together                                                  *)

\* What a command that goes on keeps in memory.
LEMMA Carried ==
  ASSUME CTypes, CPlanInv, GivenInv, NEW c \in Clients, ClientStep(c), Running(c)'
  PROVE  /\ ~KillClient(c)
         /\ \E cfg \in Config : \E w : Turned(c, Tail(steps[c]), cfg, w)
         /\ steps[c] \in Seq(StepNames) /\ steps[c] # <<>> /\ steps'[c] = Tail(steps[c])
         /\ Tail(steps[c]) \in Seq(StepNames) /\ Tail(steps[c]) # <<>>
         /\ config'[c].id = config[c].id /\ pass'[c] = pass[c]
         /\ config'[c].embedded => config[c].embedded /\ ~Does(c, "set_wrapped")
         /\ \/ config'[c].min = config[c].min
            \/ Does(c, "set_invite") /\ config'[c].min > 0
            \/ Does(c, "set_min") /\ config'[c].min = wanted[c]
         /\ Does(c, "set_min") => config'[c].min = wanted[c]
         /\ wanted'[c] = IF Does(c, "load_policy") THEN Intended(c) ELSE wanted[c]
<1>a. Locals /\ policyFile \in Nat
  BY DEF CTypes, VaultFiles
<1>1. ~KillClient(c)
  BY Killed
<1>2. PICK cfg0, w0 : cfg0 \in Config /\ Turned(c, Tail(steps[c]), cfg0, w0)
  BY <1>1, Onward, TurnDone
<1>3. /\ steps[c] \in Seq(StepNames) /\ steps[c] # <<>> /\ steps'[c] = Tail(steps[c])
      /\ Tail(steps[c]) # <<>> /\ pass'[c] = pass[c]
  BY <1>a, <1>2 DEF Turned, Running, Locals
<1>4. Tail(steps[c]) \in Seq(StepNames)
  BY <1>3, Unfold
<1>5. CASE Plain(c)
  <2>1. config'[c] = config[c] /\ wanted'[c] = wanted[c]
    BY <1>a, <1>3, <1>5, PlainTurn DEF Turned
  <2>2. /\ ~Does(c, "set_wrapped") /\ ~Does(c, "load_policy") /\ ~Does(c, "set_min")
    BY <1>5 DEF Plain, TruncateFile, FillConfig, FillKey, FillWrapped, RemoveKey, MakeFolders,
                SavePolicy, Does
  <2> QED
    BY <1>1, <1>2, <1>3, <1>4, <2>1, <2>2
<1>6. CASE SetConfig(c)
  <2>1. PICK new \in {Wrap(c), Enrol(c), Invited(c)} :
          /\ Turned(c, Tail(steps[c]), new, wanted[c])
          /\ \/ new = Wrap(c) /\ Does(c, "set_wrapped")
             \/ new = Enrol(c) /\ Does(c, "set_members")
             \/ new = Invited(c) /\ Does(c, "set_invite")
    BY <1>a, <1>6, ChangeTurn
  <2>2. config'[c] = new /\ wanted'[c] = wanted[c]
    BY <1>3, <2>1 DEF Turned
  <2>3. /\ new.id = config[c].id /\ (new.embedded => config[c].embedded /\ ~Does(c, "set_wrapped"))
        /\ new.min = config[c].min \/ (Does(c, "set_invite") /\ new.min > 0)
        /\ ~Does(c, "load_policy") /\ ~Does(c, "set_min")
    <3>1. CASE Does(c, "set_wrapped")
      <4>1. new = Wrap(c) /\ ~Does(c, "load_policy") /\ ~Does(c, "set_min")
        BY <2>1, <3>1 DEF Does
      <4> QED
        BY <1>a, <3>1, <4>1, Changes
    <3>2. CASE Does(c, "set_members")
      <4>1. new = Enrol(c) /\ ~Does(c, "load_policy") /\ ~Does(c, "set_min")
            /\ ~Does(c, "set_wrapped")
        BY <2>1, <3>2 DEF Does
      <4> QED
        BY <1>a, <3>2, <4>1, Changes
    <3>3. CASE Does(c, "set_invite")
      <4>1. new = Invited(c) /\ ~Does(c, "load_policy") /\ ~Does(c, "set_min")
            /\ ~Does(c, "set_wrapped")
        BY <2>1, <3>3 DEF Does
      <4> QED
        BY <1>a, <3>3, <4>1, Changes
    <3> QED
      BY <2>1, <3>1, <3>2, <3>3
  <2> QED
    BY <1>1, <1>2, <1>3, <1>4, <2>2, <2>3
<1>7. CASE LoadPolicy(c)
  <2>1. config'[c] = config[c] /\ wanted'[c] = Intended(c) /\ Does(c, "load_policy")
    BY <1>a, <1>3, <1>7, LoadTurn DEF Turned
  <2>2. ~Does(c, "set_wrapped") /\ ~Does(c, "set_min")
    BY <2>1 DEF Does
  <2> QED
    BY <1>1, <1>2, <1>3, <1>4, <2>1, <2>2
<1>8. CASE SetMin(c)
  <2>1. Turned(c, Tail(steps[c]), Lower(c), wanted[c]) /\ Does(c, "set_min")
    BY <1>a, <1>3, <1>8, MinTurn DEF Turned
  <2>2. config'[c] = Lower(c) /\ wanted'[c] = wanted[c]
    BY <1>3, <2>1 DEF Turned
  <2>3. ~Does(c, "set_wrapped") /\ ~Does(c, "load_policy")
    BY <2>1 DEF Does
  <2>4. Lower(c).id = config[c].id /\ Lower(c).min = wanted[c]
        /\ Lower(c).embedded = config[c].embedded
    BY <1>a, <2>1, Changes
  <2> QED
    BY <1>1, <1>2, <1>3, <1>4, <2>1, <2>2, <2>3, <2>4
<1> QED
  BY <1>1, <1>5, <1>6, <1>7, <1>8 DEF ClientStep

\* Alone, a client fills the config it has truncated.
LEMMA ConfigAlone ==
  ASSUME CTypes, CPlanInv, GivenInv, SerialInv, ~together', NEW c \in Clients, ClientStep(c),
         ~KillClient(c)
  PROVE  /\ Does(c, "truncate_config") => configFile' = Truncated /\ ~Readable'
         /\ Does(c, "write_config") => configFile' = config[c] /\ Readable'
         /\ ~Does(c, "truncate_config") /\ ~Does(c, "write_config") =>
              configFile' = configFile /\ (Readable' <=> Readable)
<1>1. Does(c, "truncate_config") => configFile' = Truncated
  BY FileSteps
<1>2. ASSUME Does(c, "write_config") PROVE configFile' = config[c]
  <2>1. configFile = Truncated
    BY <1>2, OnlyClient DEF SerialInv
  <2> QED
    BY <1>2, <2>1, FileSteps
<1>3. config[c] \notin Unreadable
  BY ConfigAssumption DEF CTypes, Locals
<1>4. ~Does(c, "truncate_config") /\ ~Does(c, "write_config") => configFile' = configFile
  BY FileSteps
<1> QED
  BY <1>1, <1>2, <1>3, <1>4 DEF Readable, Unreadable

\* OpenInv, over a step of the one command there is.
LEMMA OpenInvStep ==
  ASSUME CTypes, CPlanInv, GivenInv, MakingInv, SerialInv, SignInv, OpenInv, ~together',
         NEW c \in Clients, ClientStep(c), ~KillClient(c)
  PROVE  OpenInv'
<1>a. /\ ~together /\ Running(c) /\ Locals
      /\ \A d \in Clients : Running(d) \/ Running(d)' => d = c
      /\ \A d \in Clients : \A x : Due(d, x)' \/ Does(d, x)' => d = c
  BY OnlyClient DEF CTypes
<1>b. \A d \in Clients : \A x : Does(d, x) => d = c
  BY <1>a DEF Does
<1>c. steps[c] \in Seq(StepNames) /\ steps[c] # <<>>
  BY <1>a DEF Locals, Running
<1>d. halfWritten' = halfWritten
  BY WholeWrites
<1>e. /\ Does(c, "truncate_config") => Does(c, "write_config")'
      /\ Does(c, "truncate_wrapped") => Does(c, "write_wrapped")'
      /\ Does(c, "truncate_key") => Does(c, "write_key")'
  <2>1. ASSUME ~Does(c, "set_min") PROVE \E cfg \in Config : \E w : Turned(c, Tail(steps[c]), cfg, w)
    BY <2>1, Onward
  <2>2. Does(c, "set_min") => /\ ~Does(c, "truncate_config") /\ ~Does(c, "truncate_wrapped")
                              /\ ~Does(c, "truncate_key")
    BY DEF Does
  <2> QED
    BY <1>a, <2>1, <2>2, NextStep
<1>1. ASSUME halfWritten' = {}, born', ~Readable' PROVE \E d \in Clients : Does(d, "write_config")'
  <2>1. CASE Does(c, "truncate_config")
    BY <1>e, <2>1
  <2>2. CASE Does(c, "write_config")
    BY <1>1, <2>2, ConfigAlone
  <2>3. CASE ~Does(c, "truncate_config") /\ ~Does(c, "write_config")
    <3>1. ~Readable
      BY <1>1, <2>3, ConfigAlone
    <3>2. ~born
      BY <1>1, <1>a, <1>b, <1>d, <2>3, <3>1 DEF OpenInv
    <3>3. Does(c, "make_folders")
      BY <1>1, <3>2, FileSteps
    <3>4. Before(steps[c], {"write_config"}, {"make_folders"})
      BY <1>1, <1>a, <1>d, <3>1, <3>3, DoesIsDue DEF OpenInv
    <3> QED
      BY <1>c, <3>3, <3>4, BeforeTail DEF Does
  <2> QED
    BY <2>1, <2>2, <2>3
<1>2. ASSUME halfWritten' = {}, Due(c, "make_folders")', ~Readable'
      PROVE  Before(steps'[c], {"write_config"}, {"make_folders"})
  <2>1. Running(c)'
    BY <1>2, NothingLeft DEF Due, Running
  <2>2. steps'[c] = Tail(steps[c]) /\ Tail(steps[c]) \in Seq(StepNames) /\ Tail(steps[c]) # <<>>
    BY <2>1, Carried
  <2>3. CASE Does(c, "truncate_config")
    <3>1. Head(Tail(steps[c])) = "write_config"
      BY <1>e, <2>2, <2>3 DEF Does
    <3> QED
      BY <2>2, <3>1, BeforeTail
  <2>4. CASE Does(c, "write_config")
    BY <1>2, <2>4, ConfigAlone
  <2>5. CASE ~Does(c, "truncate_config") /\ ~Does(c, "write_config")
    <3>1. ~Readable /\ Due(c, "make_folders")
      BY <1>2, <2>5, ConfigAlone, DueBefore
    <3>2. Before(steps[c], {"write_config"}, {"make_folders"})
      BY <1>2, <1>a, <1>d, <3>1 DEF OpenInv
    <3>3. Head(steps[c]) # "write_config"
      BY <1>a, <2>5 DEF Does
    <3> QED
      BY <1>c, <2>2, <3>2, <3>3, BeforeTail
  <2> QED
    BY <2>3, <2>4, <2>5
<1>3. ASSUME halfWritten' = {}, wrappedFile' \in Unreadable \ {NoFileYet}
      PROVE  \E d \in Clients : Does(d, "write_wrapped")'
  <2>1. CASE Does(c, "truncate_wrapped")
    BY <1>e, <2>1
  <2>2. CASE Does(c, "write_wrapped")
    BY <1>3, <2>2, WrapMade
  <2>3. CASE ~Does(c, "truncate_wrapped") /\ ~Does(c, "write_wrapped")
    <3>1. wrappedFile' = wrappedFile
      BY <2>3, FileSteps
    <3> QED
      BY <1>3, <1>a, <1>b, <1>d, <2>3, <3>1 DEF OpenInv
  <2> QED
    BY <2>1, <2>2, <2>3
<1>4. ASSUME halfWritten' = {}, keyFile' = "truncated"
      PROVE  \E d \in Clients : Does(d, "write_key")'
  <2>1. CASE Does(c, "truncate_key")
    BY <1>e, <2>1
  <2>2. CASE Does(c, "write_key")
    BY <1>4, <2>2, FileSteps
  <2>3. CASE Does(c, "remove_key")
    BY <1>4, <2>3, FileSteps
  <2>4. CASE ~Does(c, "truncate_key") /\ ~Does(c, "write_key") /\ ~Does(c, "remove_key")
    <3>1. keyFile' = keyFile
      BY <2>4, FileSteps
    <3> QED
      BY <1>4, <1>a, <1>b, <1>d, <2>4, <3>1 DEF OpenInv
  <2> QED
    BY <2>1, <2>2, <2>3, <2>4
<1>5. ASSUME wrappedFile' \notin Unreadable
      PROVE  /\ wrappedFile'.id # NoId
             /\ Readable' => configFile'.id = wrappedFile'.id
             /\ Running(c)' => config'[c].id = wrappedFile'.id
  <2>1. CASE Does(c, "write_wrapped")
    <3>1. wrappedFile'.id = config[c].id /\ wrappedFile # NoFileYet
      BY <2>1, WrapMade DEF MakingInv
    <3>2. config[c].id # NoId
      BY <1>a DEF SignInv
    <3>3. Readable => configFile.id = config[c].id
      BY <1>a, <3>1 DEF OpenInv
    <3>4. configFile' = configFile /\ (Readable' <=> Readable)
      BY <2>1, ConfigAlone DEF Does
    <3> QED
      BY <3>1, <3>2, <3>3, <3>4, Carried
  <2>2. CASE Does(c, "truncate_wrapped")
    BY <1>5, <2>2, FileSteps DEF Unreadable
  <2>3. CASE ~Does(c, "truncate_wrapped") /\ ~Does(c, "write_wrapped")
    <3>1. wrappedFile' = wrappedFile
      BY <2>3, FileSteps
    <3>2. /\ wrappedFile.id # NoId /\ (Readable => configFile.id = wrappedFile.id)
          /\ config[c].id = wrappedFile.id
      BY <1>5, <1>a, <3>1 DEF OpenInv
    <3>3. Readable' => configFile'.id = wrappedFile.id
      BY <3>2, ConfigAlone
    <3> QED
      BY <3>1, <3>2, <3>3, Carried
  <2> QED
    BY <2>1, <2>2, <2>3
<1>6. ASSUME Running(c)', Readable', configFile'.id # config'[c].id
      PROVE  wrappedFile' = NoFileYet /\ Before(steps'[c], {"write_config"}, {"truncate_wrapped"})
  <2>1. config'[c].id = config[c].id /\ steps'[c] = Tail(steps[c])
    BY <1>6, Carried
  <2>2. ~Does(c, "truncate_config") /\ ~Does(c, "write_config")
    BY <1>6, <2>1, ConfigAlone
  <2>3. Readable /\ configFile.id # config[c].id
    BY <1>6, <2>1, <2>2, ConfigAlone
  <2>4. wrappedFile = NoFileYet /\ Before(steps[c], {"write_config"}, {"truncate_wrapped"})
    BY <1>a, <2>3 DEF OpenInv
  <2>5. ~Does(c, "write_wrapped")
    BY <2>4 DEF MakingInv
  <2>6. /\ ~Does(c, "truncate_wrapped")
        /\ Before(Tail(steps[c]), {"write_config"}, {"truncate_wrapped"})
    <3>1. Head(steps[c]) # "write_config"
      BY <1>a, <2>2 DEF Does
    <3> QED
      BY <1>c, <2>4, <3>1, BeforeTail DEF Does
  <2> QED
    BY <2>1, <2>4, <2>5, <2>6, FileSteps
<1> QED
  BY <1>a, <1>1, <1>2, <1>3, <1>4, <1>5, <1>6 DEF OpenInv

LEMMA OpenInvNext ==
  ASSUME CTypes, CPlanInv, GivenInv, MakingInv, SerialInv, SignInv, OpenInv, ConfigNext
  PROVE  OpenInv'
<1>0. PICK c \in Clients : \/ \E plan \in MakePlans : Making(c, plan)
                           \/ \E todo \in Todos : Opening(c, todo)
                           \/ ClientStep(c)
  BY NextIsStep
<1>a. Locals /\ (Readable => configFile \in Config)
  BY DEF CTypes, VaultFiles
<1> SUFFICES ASSUME ~together' PROVE OpenInv'
  BY DEF OpenInv
<1>b. /\ ~together /\ (~ClientStep(c) => Quiescent) /\ (ClientStep(c) => Running(c))
      /\ \A d \in Clients : Running(d) \/ Running(d)' => d = c
      /\ \A d \in Clients : \A x : Due(d, x)' \/ Does(d, x)' => d = c
  BY <1>0, OnlyClient
<1>c. Quiescent => \A d \in Clients : \A x : ~Does(d, x)
  BY DEF Quiescent, Does
<1>1. CASE ~ClientStep(c) /\ \E plan \in MakePlans : Making(c, plan)
  <2>1. PICK plan \in MakePlans : Making(c, plan)
    BY <1>1
  <2>2. /\ UNCHANGED <<configFile, keyFile, wrappedFile, born, halfWritten>>
        /\ folders = "none" /\ steps'[c] = plan
    BY <2>1 DEF Making, Launched
  <2>3. ~born /\ configFile = NoFileYet /\ keyFile = "absent" /\ wrappedFile = NoFileYet
    BY <2>2 DEF MakingInv
  <2>4. Before(plan, {"write_config"}, {"make_folders"})
    BY MakePlansOrdered
  <2>5. ~Readable'
    BY <2>2, <2>3 DEF Readable, Unreadable
  <2>6. NoFileYet \in Unreadable
    BY DEF Unreadable
  <2> QED
    BY <1>b, <2>2, <2>3, <2>4, <2>5, <2>6 DEF OpenInv
<1>2. CASE ~ClientStep(c) /\ \E todo \in Todos : Opening(c, todo)
  <2>1. PICK todo \in Todos : Opening(c, todo)
    BY <1>2
  <2>2. /\ UNCHANGED <<configFile, keyFile, wrappedFile, born, halfWritten>>
        /\ steps'[c] = MigrationSteps(c) \o todo /\ config'[c] = Opened(c)
    BY <2>1 DEF Opening, Launched, configFiles
  <2>3. /\ Readable
        /\ \/ UsesWrapped /\ wrappedFile \notin Unreadable
           \/ ~UsesWrapped /\ keyFile = "key"
           \/ Embedded
    BY <2>1, OpeningHasKey
  <2>4. Readable' /\ Quiescent
    BY <1>2, <1>b, <2>2, <2>3 DEF Readable
  <2>5. Opened(c).id = Id(c)
    BY <1>a, <2>3, OpenedType
  <2>6. wrappedFile \notin Unreadable => /\ wrappedFile.id # NoId
                                         /\ configFile.id = wrappedFile.id
    BY <1>b, <2>3 DEF OpenInv
  <2>7. halfWritten = {} => /\ wrappedFile \notin Unreadable \ {NoFileYet}
                            /\ keyFile # "truncated"
    BY <1>b, <1>c, <2>4 DEF OpenInv
  <2>8. configFile.id # Id(c) =>
          /\ wrappedFile = NoFileYet
          /\ Before(steps'[c], {"write_config"}, {"truncate_wrapped"})
    <3>1. SUFFICES ASSUME configFile.id = NoId
                   PROVE  /\ wrappedFile = NoFileYet
                          /\ Before(steps'[c], {"write_config"}, {"truncate_wrapped"})
      BY DEF Id
    <3>2. MigrationSteps(c) \in Migrations /\ MigrationSteps(c) # <<>> \o <<>>
      BY <3>1, MigrationsTyped
    <3>3. Before(MigrationSteps(c) \o todo, {"write_config"}, {"truncate_wrapped"})
      BY <3>2, OpenPlans
    <3>4. wrappedFile = NoFileYet
      BY <2>3, <2>6, <3>1 DEF UsesWrapped, Embedded
    <3> QED
      BY <2>2, <3>3, <3>4
  <2>9. wrappedFile \notin Unreadable => Id(c) = wrappedFile.id
    BY <2>6 DEF Id
  <2> QED
    BY <1>b, <2>2, <2>4, <2>5, <2>6, <2>7, <2>8, <2>9 DEF OpenInv
<1>3. CASE ClientStep(c) /\ KillClient(c)
  <2>1. /\ \A x \in {"write_config", "write_key", "write_wrapped"} :
              Does(c, x) => x \in halfWritten'
        /\ ~Running(c)' /\ (\A x : ~Due(c, x)' /\ ~Does(c, x)')
        /\ UNCHANGED <<configFile, keyFile, wrappedFile, born>>
    BY <1>3, Killed
  <2>2. halfWritten' = {} =>
          /\ halfWritten = {}
          /\ ~Does(c, "write_config") /\ ~Does(c, "write_key") /\ ~Does(c, "write_wrapped")
    BY <1>3, <2>1, FileSteps
  <2>3. \A d \in Clients : \A x : Does(d, x) => d = c
    BY <1>b DEF Does
  <2>4. Readable' <=> Readable
    BY <2>1 DEF Readable
  <2>5. halfWritten' = {} =>
          /\ ~(born' /\ ~Readable') /\ wrappedFile' \notin Unreadable \ {NoFileYet}
          /\ keyFile' # "truncated"
    BY <1>b, <2>1, <2>2, <2>3, <2>4 DEF OpenInv
  <2>6. wrappedFile' \notin Unreadable =>
          wrappedFile'.id # NoId /\ (Readable' => configFile'.id = wrappedFile'.id)
    BY <1>b, <2>1, <2>4 DEF OpenInv
  <2> QED
    BY <1>b, <2>1, <2>5, <2>6 DEF OpenInv
<1>4. CASE ClientStep(c) /\ ~KillClient(c)
  BY <1>4, OpenInvStep
<1> QED
  BY <1>0, <1>1, <1>2, <1>3, <1>4

-----------------------------------------------------------------------------
(* The plain key goes                                                      *)

\* A protect has returned where its last step is done.
LEMMA Returning ==
  ASSUME CTypes, CPlanInv, GivenInv, NEW c \in Clients, ClientStep(c), ~protected, protected'
  PROVE  /\ ~KillClient(c) /\ ~Running(c)' /\ pass[c] # NoFileYet
         /\ Does(c, "write_config") /\ \A x : Due(c, x) => x = "write_config"
<1>a. Locals
  BY DEF CTypes
<1>1. /\ FillConfig(c) \/ SavePolicy(c)
      /\ Return(c) /\ Len(steps[c]) = 1 /\ pass[c] # NoFileYet
  <2>1. CASE FillConfig(c) \/ SavePolicy(c)
    BY <2>1 DEF FillConfig, SavePolicy, Return
  <2>2. CASE TruncateFile(c) \/ FillKey(c) \/ FillWrapped(c) \/ RemoveKey(c) \/ MakeFolders(c)
    BY <2>2 DEF TruncateFile, FillKey, FillWrapped, RemoveKey, MakeFolders, configGhosts
  <2>3. CASE SetConfig(c) \/ LoadPolicy(c) \/ SetMin(c) \/ KillClient(c)
    BY <2>3 DEF SetConfig, LoadPolicy, SetMin, KillClient, configGhosts
  <2> QED
    BY <2>1, <2>2, <2>3 DEF ClientStep, Plain
<1>2. Turned(c, Tail(steps[c]), config[c], wanted[c])
  BY <1>a, <1>1, PlainTurn DEF Plain
<1>3. steps[c] \in Seq(StepNames) /\ steps[c] # <<>> /\ Running(c)
  BY <1>a, <1>2 DEF Turned, Running, Locals
<1>4. Tail(steps[c]) = <<>>
  BY <1>1, <1>3, Unfold
<1>5. ~Running(c)'
  BY <1>2, <1>4 DEF Turned, Running
<1>6. Head(steps[c]) = "write_config"
  BY <1>1, <1>3, <1>4, ProtectsTail DEF CPlanInv
<1>7. \A x : Due(c, x) => x = "write_config"
  BY <1>3, <1>4, <1>6, InTail, NothingLeft DEF Due
<1>8. ~KillClient(c)
  BY DEF KillClient
<1> QED
  BY <1>1, <1>3, <1>5, <1>6, <1>7, <1>8 DEF Does

LEMMA PlainInvStep ==
  ASSUME CTypes, CPlanInv, GivenInv, MakingInv, SerialInv, PlainInv, ~together',
         NEW c \in Clients, ClientStep(c), ~KillClient(c)
  PROVE  PlainInv'
<1>a. /\ ~together /\ Running(c) /\ Locals
      /\ \A d \in Clients : Running(d) \/ Running(d)' => d = c
  BY OnlyClient DEF CTypes
<1>b. wrappedFile # NoFileYet => wrappedFile' # NoFileYet
  BY Wrapping
<1>c. /\ keyFile' = keyFile \/ Does(c, "truncate_key") \/ Does(c, "write_key")
           \/ Does(c, "remove_key")
      /\ Does(c, "remove_key") => keyFile' = "absent"
  BY FileSteps
<1>d. \A x : Does(c, x) => Due(c, x)
  BY <1>a, DoesIsDue
<1>e. protected => /\ keyFile = "absent" /\ wrappedFile # NoFileYet
                   /\ Readable => ~configFile.embedded
                   /\ ~config[c].embedded /\ ~Due(c, "truncate_key") /\ ~Due(c, "write_key")
  BY <1>a DEF PlainInv
<1>f. pass[c] # NoFileYet =>
        /\ ~Due(c, "remove_key") => keyFile = "absent" /\ wrappedFile # NoFileYet
        /\ ~Due(c, "set_wrapped") => ~config[c].embedded
  BY <1>a DEF PlainInv
<1>1. ASSUME protected' PROVE keyFile' = "absent" /\ wrappedFile' # NoFileYet
                              /\ (Readable' => ~configFile'.embedded)
                              /\ (Running(c)' => /\ ~config'[c].embedded
                                                 /\ ~Due(c, "truncate_key")'
                                                 /\ ~Due(c, "write_key")')
  <2>1. CASE protected
    <3>1. keyFile' = "absent" /\ wrappedFile' # NoFileYet
      BY <1>b, <1>c, <1>d, <1>e, <2>1
    <3>2. Readable' => ~configFile'.embedded
      BY <1>e, <2>1, ConfigAlone
    <3>3. Running(c)' => ~config'[c].embedded
      BY <1>e, <2>1, Carried
    <3>4. ~Due(c, "truncate_key")' /\ ~Due(c, "write_key")'
      BY <1>e, <2>1, DueBefore
    <3> QED
      BY <3>1, <3>2, <3>3, <3>4
  <2>2. CASE ~protected
    <3>1. /\ ~Running(c)' /\ pass[c] # NoFileYet /\ Does(c, "write_config")
          /\ ~Due(c, "remove_key") /\ ~Due(c, "set_wrapped")
      BY <1>1, <2>2, Returning
    <3>2. keyFile = "absent" /\ wrappedFile # NoFileYet /\ ~config[c].embedded
      BY <1>f, <3>1
    <3>3. keyFile' = keyFile
      BY <1>c, <3>1 DEF Does
    <3>4. configFile' = config[c]
      BY <3>1, ConfigAlone
    <3> QED
      BY <1>b, <3>1, <3>2, <3>3, <3>4
  <2> QED
    BY <2>1, <2>2
<1>2. ASSUME Running(c)', pass'[c] # NoFileYet
      PROVE  /\ ~Due(c, "remove_key")' => keyFile' = "absent" /\ wrappedFile' # NoFileYet
             /\ ~Due(c, "set_wrapped")' => ~config'[c].embedded
  <2>1. /\ steps[c] \in Seq(StepNames) /\ steps[c] # <<>> /\ pass[c] # NoFileYet
        /\ \E cfg \in Config : \E w : Turned(c, Tail(steps[c]), cfg, w)
        /\ config'[c].embedded => config[c].embedded /\ ~Does(c, "set_wrapped")
    BY <1>2, Carried
  <2>2. /\ \A x : Due(c, x) <=> Head(steps[c]) = x \/ Due(c, x)'
        /\ \A x : In(Tail(steps[c]), x) <=> Due(c, x)'
    BY <1>a, <2>1, TurnDue
  <2>3. \A x : Does(c, x) <=> Head(steps[c]) = x
    BY <1>a DEF Does
  <2>4. ASSUME ~Due(c, "remove_key")' PROVE keyFile' = "absent" /\ wrappedFile' # NoFileYet
    <3>1. CASE Does(c, "remove_key")
      <4>1. wrappedFile # NoFileYet
        BY <3>1 DEF MakingInv
      <4> QED
        BY <1>b, <1>c, <3>1, <4>1
    <3>2. CASE ~Does(c, "remove_key")
      <4>1. keyFile = "absent" /\ wrappedFile # NoFileYet
        BY <1>f, <2>1, <2>2, <2>3, <2>4, <3>2
      <4>2. ~Does(c, "truncate_key") /\ ~Does(c, "write_key")
        <5>1. Protects(steps[c])
          BY <2>1 DEF CPlanInv
        <5> QED
          BY <2>1, <2>2, <2>3, <2>4, <5>1, ProtectsTail
      <4> QED
        BY <1>b, <1>c, <3>2, <4>1, <4>2
    <3> QED
      BY <3>1, <3>2
  <2>5. ~Due(c, "set_wrapped")' => ~config'[c].embedded
    BY <1>f, <2>1, <2>2, <2>3
  <2> QED
    BY <2>4, <2>5
<1> QED
  BY <1>a, <1>1, <1>2 DEF PlainInv

LEMMA PlainInvNext ==
  ASSUME CTypes, CPlanInv, GivenInv, MakingInv, SerialInv, PlainInv, ConfigNext
  PROVE  PlainInv'
<1>0. PICK c \in Clients : \/ \E plan \in MakePlans : Making(c, plan)
                           \/ \E todo \in Todos : Opening(c, todo)
                           \/ ClientStep(c)
  BY NextIsStep
<1>a. Locals /\ (Readable => configFile \in Config)
  BY DEF CTypes, VaultFiles
<1> SUFFICES ASSUME ~together' PROVE PlainInv'
  BY DEF PlainInv
<1>b. /\ ~together
      /\ \A d \in Clients : Running(d) \/ Running(d)' => d = c
  BY <1>0, OnlyClient
<1>1. CASE ~ClientStep(c) /\ \E plan \in MakePlans : Making(c, plan)
  <2>1. PICK plan \in MakePlans : Making(c, plan)
    BY <1>1
  <2>2. /\ folders = "none" /\ steps'[c] = plan /\ protected' = protected
        /\ config'[c].embedded = FALSE
        /\ plan # CreateSteps(TRUE) => pass'[c] = NoFileYet
    BY <2>1 DEF Making, Launched
  <2>3. ~protected
    BY <1>b, <2>2 DEF MakingInv, PlainInv
  <2>4. plan = CreateSteps(TRUE) => Due(c, "remove_key")'
    BY <2>2, InMakePlan DEF Due
  <2> QED
    BY <1>b, <2>2, <2>3, <2>4 DEF PlainInv
<1>2. CASE ~ClientStep(c) /\ \E todo \in Todos : Opening(c, todo)
  <2>1. PICK todo \in Todos : Opening(c, todo)
    BY <1>2
  <2>2. /\ UNCHANGED <<configFile, keyFile, wrappedFile, protected>>
        /\ steps'[c] = MigrationSteps(c) \o todo /\ config'[c] = Opened(c)
        /\ todo # ProtectSteps => pass'[c] = NoFileYet
    BY <2>1 DEF Opening, Launched, configFiles
  <2>3. Readable /\ Readable'
    BY <2>1, <2>2, OpeningHasKey DEF Readable
  <2>4. Opened(c).embedded = (configFile.embedded /\ ~Embedded)
    BY <1>a, <2>3, OpenedType
  <2>5. Due(c, "truncate_key")' \/ Due(c, "write_key")' => Embedded
    <3>1. ASSUME NEW x \in {"truncate_key", "write_key"}, In(MigrationSteps(c) \o todo, x)
          PROVE  Embedded
      <4>1. x \notin {"truncate_config", "write_config"}
        OBVIOUS
      <4> QED
        BY <3>1, <4>1, OpenDue, TodoSteps
    <3> QED
      BY <2>2, <3>1 DEF Due
  <2>6. Embedded => configFile.embedded
    BY DEF Embedded
  <2>7. todo = ProtectSteps => Due(c, "remove_key")' /\ Due(c, "set_wrapped")'
    <3>1. In(ProtectSteps, "remove_key") /\ In(ProtectSteps, "set_wrapped")
      BY Parts
    <3> QED
      BY <2>2, <3>1, OpenDue DEF Due
  <2>8. protected => /\ keyFile = "absent" /\ wrappedFile # NoFileYet
                     /\ ~configFile.embedded
    BY <1>b, <2>3 DEF PlainInv
  <2>9. protected' =>
          /\ keyFile' = "absent" /\ wrappedFile' # NoFileYet
          /\ Readable' => ~configFile'.embedded
          /\ ~config'[c].embedded /\ ~Due(c, "truncate_key")' /\ ~Due(c, "write_key")'
    BY <2>2, <2>4, <2>5, <2>6, <2>8
  <2> QED
    BY <1>b, <2>2, <2>7, <2>9 DEF PlainInv
<1>3. CASE ClientStep(c) /\ KillClient(c)
  <2>1. /\ ~Running(c)' /\ UNCHANGED <<configFile, keyFile, wrappedFile, protected>>
    BY <1>3, Killed
  <2>2. Readable' <=> Readable
    BY <2>1 DEF Readable
  <2> QED
    BY <1>b, <2>1, <2>2 DEF PlainInv
<1>4. CASE ClientStep(c) /\ ~KillClient(c)
  BY <1>4, PlainInvStep
<1> QED
  BY <1>0, <1>1, <1>2, <1>3, <1>4

-----------------------------------------------------------------------------
(* The policy and the config agree                                         *)

\* MinInv, of one client that runs,
Policied(c) ==
  /\ config[c].min > 0
  /\ Due(c, "set_invite") => policyFile = 0
  /\ Applying(c) /\ Readable => configFile.min = config[c].min
  /\ Due(c, "save_policy") /\ ~Due(c, "set_min") => wanted[c] = config[c].min
  /\ Due(c, "save_policy") /\ ~Due(c, "load_policy") /\ ~halfApplied =>
       wanted[c] = config[c].min \/ (wanted[c] \in Replicas /\ Due(c, "set_min"))
  /\ Due(c, "set_min") /\ ~Due(c, "load_policy") => wanted[c] # 0
  /\ Due(c, "set_min") /\ ~Due(c, "save_policy") => policyFile = wanted[c]
  /\ wanted[c] \in Replicas /\ ~Applying(c) => policyFile = config[c].min
  /\ ~halfApplied =>
       \/ policyFile \in {0, config[c].min}
       \/ wanted[c] \in Replicas /\ Due(c, "set_min") /\ ~Due(c, "save_policy")
  /\ Readable =>
       \/ configFile.min = config[c].min
       \/ policyFile = 0
       \/ /\ Due(c, "write_config") /\ ~Due(c, "save_policy")
          /\ halfApplied \/ wanted[c] \in Replicas

\* and of the one client there is.
Agreeing(c) ==
  /\ Readable => configFile.min > 0
  /\ ~Running(c) /\ ~halfApplied /\ Readable => policyFile \in {0, configFile.min}
  /\ Running(c) => Policied(c)

\* What is due before and after a turn.
LEMMA MinAhead ==
  ASSUME CTypes, CPlanInv, GivenInv, NEW c \in Clients, ClientStep(c), ~KillClient(c),
         ~Does(c, "set_min") \/ Running(c)'
  PROVE  /\ Leads(steps[c]) /\ \A x : Does(c, x) <=> Head(steps[c]) = x
         /\ \A x : Due(c, x) <=> Does(c, x) \/ Due(c, x)'
         /\ \A x : In(Tail(steps[c]), x) <=> Due(c, x)'
         /\ \A x : Due(c, x)' => Running(c)'
         /\ Running(c)' <=> Tail(steps[c]) # <<>>
<1>1. PICK cfg, w : cfg \in Config /\ Turned(c, Tail(steps[c]), cfg, w)
  BY Onward, TurnDone
<1>2. Running(c)
  BY StepTurn
<1>3. \A x : Does(c, x) <=> Head(steps[c]) = x
  BY <1>2 DEF Does
<1>4. \A x : Due(c, x)' => Running(c)'
  BY NothingLeft DEF Due, Running
<1> QED
  BY <1>1, <1>3, <1>4, TurnDue DEF CTypes

LEMMA PolicyTurn ==
  ASSUME CTypes, CPlanInv, GivenInv, NEW c \in Clients, ClientStep(c), ~KillClient(c)
  PROVE  /\ Does(c, "save_policy") => policyFile' = wanted[c]
         /\ Does(c, "load_policy") => policyFile' = CurrentMin(c) /\ Running(c)'
         /\ ~Does(c, "save_policy") /\ ~Does(c, "load_policy") => policyFile' = policyFile
         /\ Running(c)' => halfApplied' = halfApplied
         /\ ~Running(c)' /\ (Does(c, "write_config") \/ Does(c, "save_policy")) =>
              halfApplied' = (halfApplied /\ wanted[c] \notin Replicas)
         /\ ~Running(c)' /\ Does(c, "set_min") => config[c].min = wanted[c]
         /\ ~Running(c)' /\ ~Does(c, "write_config") /\ ~Does(c, "save_policy")
              /\ ~Does(c, "set_min") => halfApplied' = halfApplied
<1>a. Locals /\ policyFile \in Nat /\ Running(c) /\ halfApplied \in BOOLEAN
  BY StepTurn DEF CTypes, VaultFiles, Ghosts
<1>b. steps[c] \in Seq(StepNames) /\ steps[c] # <<>>
  BY <1>a DEF Locals, Running
<1>c. \A x, y : Does(c, x) /\ Does(c, y) => x = y
  BY DEF Does
<1>1. CASE FillConfig(c) \/ SavePolicy(c)
  <2>1. Running(c)' <=> Len(steps[c]) # 1
    <3>1. Turned(c, Tail(steps[c]), config[c], wanted[c])
      BY <1>a, <1>1, PlainTurn DEF Plain
    <3> QED
      BY <1>b, <3>1, Unfold DEF Turned, Running
  <2>2. halfApplied' = (halfApplied /\ ~(Len(steps[c]) = 1 /\ wanted[c] \in Replicas))
    BY <1>1 DEF FillConfig, SavePolicy, Return
  <2>3. \/ Does(c, "write_config") /\ policyFile' = policyFile
        \/ Does(c, "save_policy") /\ policyFile' = wanted[c]
    BY <1>1 DEF FillConfig, SavePolicy
  <2>4. /\ ~Does(c, "load_policy") /\ ~Does(c, "set_min")
        /\ Does(c, "write_config") => ~Does(c, "save_policy")
    BY <2>3 DEF Does
  <2>5. Running(c)' => halfApplied' = halfApplied
    BY <1>a, <2>1, <2>2
  <2>6. ~Running(c)' => halfApplied' = (halfApplied /\ wanted[c] \notin Replicas)
    BY <2>1, <2>2
  <2> QED
    BY <2>3, <2>4, <2>5, <2>6
<1>2. CASE TruncateFile(c) \/ FillKey(c) \/ FillWrapped(c) \/ RemoveKey(c) \/ MakeFolders(c)
  <2>1. halfApplied' = halfApplied /\ policyFile' = policyFile
    BY <1>2 DEF TruncateFile, FillKey, FillWrapped, RemoveKey, MakeFolders, configGhosts
  <2>2. /\ ~Does(c, "load_policy") /\ ~Does(c, "set_min") /\ ~Does(c, "save_policy")
        /\ ~Does(c, "write_config")
    BY <1>2 DEF TruncateFile, FillKey, FillWrapped, RemoveKey, MakeFolders, Does
  <2> QED
    BY <2>1, <2>2
<1>3. CASE SetConfig(c)
  <2>1. halfApplied' = halfApplied /\ policyFile' = policyFile
    BY <1>3 DEF SetConfig, configGhosts, configFiles
  <2>2. /\ ~Does(c, "load_policy") /\ ~Does(c, "set_min") /\ ~Does(c, "save_policy")
        /\ ~Does(c, "write_config")
    BY <1>3 DEF SetConfig, Does
  <2> QED
    BY <2>1, <2>2
<1>4. CASE LoadPolicy(c)
  <2>1. /\ Does(c, "load_policy") /\ policyFile' = CurrentMin(c) /\ halfApplied' = halfApplied
        /\ Turned(c, Tail(steps[c]), config[c], Intended(c))
    BY <1>a, <1>4, LoadTurn DEF configGhosts
  <2>2. Running(c)'
    <3>1. /\ Leads(steps[c]) /\ Head(steps[c]) = "load_policy"
          /\ \A x : In(Tail(steps[c]), x) <=> Due(c, x)'
      BY <1>a, <2>1, TurnDue DEF Does
    <3>2. Due(c, "save_policy")'
      BY <3>1 DEF Leads
    <3> QED
      BY <3>2, NothingLeft DEF Due, Running
  <2>3. /\ ~Does(c, "set_min") /\ ~Does(c, "save_policy") /\ ~Does(c, "write_config")
    BY <2>1 DEF Does
  <2> QED
    BY <2>1, <2>2, <2>3
<1>5. CASE SetMin(c)
  <2>1. /\ Does(c, "set_min") /\ policyFile' = policyFile
        /\ \/ /\ halfApplied' = halfApplied
              /\ Turned(c, Tail(steps[c]), Lower(c), wanted[c])
           \/ /\ config[c].min = wanted[c]
              /\ Turned(c, <<>>, config[c], wanted[c])
    BY <1>a, <1>5, MinTurn DEF configFiles
  <2>2. Turned(c, Tail(steps[c]), Lower(c), wanted[c]) => Running(c)'
    <3>1. ASSUME Turned(c, Tail(steps[c]), Lower(c), wanted[c])
          PROVE  /\ Leads(steps[c]) /\ Head(steps[c]) = "set_min"
                 /\ \A x : In(Tail(steps[c]), x) <=> Due(c, x)'
      BY <1>a, <2>1, <3>1, TurnDue DEF Does
    <3>2. Turned(c, Tail(steps[c]), Lower(c), wanted[c]) => Due(c, "write_config")'
      BY <3>1 DEF Leads
    <3> QED
      BY <3>2, NothingLeft DEF Due, Running
  <2>3. Turned(c, <<>>, config[c], wanted[c]) => ~Running(c)'
    BY TurnDone
  <2>4. /\ ~Does(c, "load_policy") /\ ~Does(c, "save_policy") /\ ~Does(c, "write_config")
    BY <2>1 DEF Does
  <2> QED
    BY <2>1, <2>2, <2>3, <2>4
<1> QED
  BY <1>1, <1>2, <1>3, <1>4, <1>5 DEF ClientStep, Plain

\* The steps that matter for the policy.
Regulating == {"write_config", "save_policy", "load_policy", "set_invite", "set_min"}

LEMMA AgreeingIdle ==
  ASSUME CTypes, CPlanInv, GivenInv, SerialInv, ~together', NEW c \in Clients, ClientStep(c),
         ~KillClient(c), Agreeing(c), \A x \in Regulating : ~Does(c, x)
  PROVE  Agreeing(c)'
<1>a. Running(c) /\ Policied(c)
  BY StepTurn DEF Agreeing
<1>b. /\ ~Does(c, "write_config") /\ ~Does(c, "save_policy") /\ ~Does(c, "load_policy")
      /\ ~Does(c, "set_invite") /\ ~Does(c, "set_min")
  BY DEF Regulating
<1>1. policyFile' = policyFile /\ halfApplied' = halfApplied
  BY <1>b, PolicyTurn
<1>2. ~Readable' \/ (configFile' = configFile /\ Readable)
  BY <1>b, ConfigAlone
<1>3. /\ Due(c, "write_config")' <=> Due(c, "write_config")
      /\ Due(c, "save_policy")' <=> Due(c, "save_policy")
      /\ Due(c, "load_policy")' <=> Due(c, "load_policy")
      /\ Due(c, "set_invite")' <=> Due(c, "set_invite")
      /\ Due(c, "set_min")' <=> Due(c, "set_min")
  BY <1>b, MinAhead
<1>4. CASE Running(c)'
  <2>1. config'[c].min = config[c].min /\ wanted'[c] = wanted[c]
    BY <1>4, <1>b, Carried
  <2>2. Policied(c)'
    BY <1>a, <1>1, <1>2, <1>3, <2>1 DEF Policied, Applying
  <2> QED
    BY <1>2, <1>4, <2>2 DEF Agreeing
<1>5. CASE ~Running(c)'
  <2>1. ~Due(c, "write_config") /\ ~Due(c, "set_min")
    BY <1>3, <1>5, MinAhead, <1>b
  <2>2. ~halfApplied /\ Readable => policyFile \in {0, configFile.min}
    BY <1>a, <2>1 DEF Policied
  <2> QED
    BY <1>1, <1>2, <1>5, <2>2 DEF Agreeing
<1> QED
  BY <1>4, <1>5

LEMMA AgreeingWrite ==
  ASSUME CTypes, CPlanInv, GivenInv, SerialInv, ~together', NEW c \in Clients, ClientStep(c),
         ~KillClient(c), Agreeing(c), Does(c, "write_config")
  PROVE  Agreeing(c)'
<1>a. Running(c) /\ Policied(c)
  BY StepTurn DEF Agreeing
<1>b. /\ ~Does(c, "save_policy") /\ ~Does(c, "load_policy")
      /\ ~Does(c, "set_invite") /\ ~Does(c, "set_min")
  BY DEF Does
<1>1. policyFile' = policyFile /\ configFile' = config[c]
  BY <1>b, PolicyTurn, ConfigAlone
<1>2. /\ Due(c, "save_policy")' <=> Due(c, "save_policy")
      /\ Due(c, "load_policy")' <=> Due(c, "load_policy")
      /\ Due(c, "set_invite")' <=> Due(c, "set_invite")
      /\ Due(c, "set_min")' <=> Due(c, "set_min")
      /\ \A x : Due(c, x)' => Running(c)'
  BY <1>b, MinAhead
<1>3. config[c].min > 0
  BY <1>a DEF Policied
<1>4. CASE Running(c)'
  <2>1. /\ config'[c].min = config[c].min /\ wanted'[c] = wanted[c]
        /\ halfApplied' = halfApplied
    BY <1>4, <1>b, Carried, PolicyTurn
  <2>2. Policied(c)'
    BY <1>a, <1>1, <1>2, <2>1 DEF Policied, Applying
  <2> QED
    BY <1>1, <1>3, <1>4, <2>2 DEF Agreeing
<1>5. CASE ~Running(c)'
  <2>1. ~Due(c, "save_policy") /\ ~Due(c, "set_min")
    BY <1>2, <1>5
  <2>2. halfApplied' = (halfApplied /\ wanted[c] \notin Replicas)
    BY <1>5, PolicyTurn
  <2>3. ~halfApplied' => policyFile \in {0, config[c].min}
    BY <1>a, <2>1, <2>2 DEF Policied, Applying
  <2> QED
    BY <1>1, <1>3, <1>5, <2>3 DEF Agreeing
<1> QED
  BY <1>4, <1>5

LEMMA AgreeingSave ==
  ASSUME CTypes, CPlanInv, GivenInv, SerialInv, ~together', NEW c \in Clients, ClientStep(c),
         ~KillClient(c), Agreeing(c), Does(c, "save_policy")
  PROVE  Agreeing(c)'
<1>a. Running(c) /\ Policied(c) /\ (Readable => configFile.min > 0)
  BY StepTurn DEF Agreeing
<1>b. /\ ~Does(c, "write_config") /\ ~Does(c, "load_policy") /\ ~Does(c, "truncate_config")
      /\ ~Does(c, "set_invite") /\ ~Does(c, "set_min")
  BY DEF Does
<1>1. policyFile' = wanted[c] /\ configFile' = configFile /\ (Readable' <=> Readable)
  BY <1>b, PolicyTurn, ConfigAlone
<1>2. /\ Due(c, "save_policy") /\ ~Due(c, "load_policy")
      /\ Due(c, "set_min")' <=> Due(c, "set_min")
      /\ ~Due(c, "save_policy")' /\ ~Due(c, "load_policy")' /\ ~Due(c, "set_invite")'
      /\ \A x : Due(c, x)' => Running(c)'
  <2>1. /\ Leads(steps[c]) /\ Head(steps[c]) = "save_policy"
        /\ \A x : Due(c, x) <=> Does(c, x) \/ Due(c, x)'
        /\ \A x : In(Tail(steps[c]), x) <=> Due(c, x)'
        /\ \A x : Due(c, x)' => Running(c)'
    BY <1>b, MinAhead
  <2>2. ~Due(c, "save_policy")' /\ ~Due(c, "load_policy")' /\ ~Due(c, "set_invite")'
    BY <2>1 DEF Leads
  <2> QED
    BY <1>b, <2>1, <2>2
<1>3. Readable => configFile.min = config[c].min
  BY <1>a, <1>2 DEF Policied, Applying
<1>4. CASE Running(c)'
  <2>1. /\ config'[c].min = config[c].min /\ wanted'[c] = wanted[c]
        /\ halfApplied' = halfApplied
    BY <1>4, <1>b, Carried, PolicyTurn
  <2>2. Policied(c)'
    BY <1>a, <1>1, <1>2, <1>3, <2>1 DEF Policied, Applying
  <2> QED
    BY <1>1, <1>a, <1>4, <2>2 DEF Agreeing
<1>5. CASE ~Running(c)'
  <2>1. ~Due(c, "set_min")
    BY <1>2, <1>5
  <2>2. wanted[c] = config[c].min
    BY <1>a, <1>2, <2>1 DEF Policied
  <2> QED
    BY <1>1, <1>a, <1>3, <1>5, <2>2 DEF Agreeing
<1> QED
  BY <1>4, <1>5

LEMMA AgreeingLoad ==
  ASSUME CTypes, CPlanInv, GivenInv, SerialInv, ~together', NEW c \in Clients, ClientStep(c),
         ~KillClient(c), Agreeing(c), Does(c, "load_policy")
  PROVE  Agreeing(c)'
<1>a. Running(c) /\ Policied(c) /\ (Readable => configFile.min > 0)
  BY StepTurn DEF Agreeing
<1>b. /\ ~Does(c, "write_config") /\ ~Does(c, "save_policy") /\ ~Does(c, "truncate_config")
      /\ ~Does(c, "set_invite") /\ ~Does(c, "set_min")
  BY DEF Does
<1>1. /\ policyFile' = CurrentMin(c) /\ Running(c)' /\ configFile' = configFile
      /\ Readable' <=> Readable
  BY <1>b, PolicyTurn, ConfigAlone
<1>2. /\ config'[c].min = config[c].min /\ wanted'[c] = Intended(c)
      /\ halfApplied' = halfApplied
  BY <1>1, <1>b, Carried, PolicyTurn
<1>3. /\ Due(c, "save_policy") /\ Due(c, "save_policy")'
      /\ Due(c, "set_min")' <=> Due(c, "set_min")
      /\ ~Due(c, "load_policy")' /\ ~Due(c, "set_invite")'
  <2>1. /\ Leads(steps[c]) /\ Head(steps[c]) = "load_policy"
        /\ \A x : Due(c, x) <=> Does(c, x) \/ Due(c, x)'
        /\ \A x : In(Tail(steps[c]), x) <=> Due(c, x)'
    BY <1>b, MinAhead
  <2>2. Due(c, "save_policy")' /\ ~Due(c, "load_policy")' /\ ~Due(c, "set_invite")'
    BY <2>1 DEF Leads
  <2> QED
    BY <1>b, <2>1, <2>2
<1>4. wanted[c] \in Replicas \cup {0}
  BY DoesIsDue DEF CTypes, GivenInv
<1>5. config[c].min > 0 /\ config[c].min # 0
  <2>1. config[c].min \in Nat
    BY DEF CTypes, Locals, Config
  <2> QED
    BY <1>a, <2>1 DEF Policied
<1>6. Readable => configFile.min = config[c].min
  BY <1>a, <1>3 DEF Policied, Applying
<1>7. ~halfApplied => CurrentMin(c) = config[c].min
  BY <1>a, <1>3 DEF Policied, CurrentMin
<1>8. ~Due(c, "set_min") => Intended(c) = config[c].min
  BY <1>a, <1>3, <1>5 DEF Policied, Intended
<1>9. Intended(c) # 0 /\ (Intended(c) = CurrentMin(c) \/ Intended(c) \in Replicas)
  BY <1>4, <1>5 DEF Intended, CurrentMin
<1>10. Policied(c)'
  BY <1>1, <1>2, <1>3, <1>5, <1>6, <1>7, <1>8, <1>9 DEF Policied, Applying
<1> QED
  BY <1>a, <1>1, <1>10 DEF Agreeing

LEMMA AgreeingInvite ==
  ASSUME CTypes, CPlanInv, GivenInv, SerialInv, ~together', NEW c \in Clients, ClientStep(c),
         ~KillClient(c), Agreeing(c), Does(c, "set_invite")
  PROVE  Agreeing(c)'
<1>a. Running(c) /\ Policied(c) /\ (Readable => configFile.min > 0)
  BY StepTurn DEF Agreeing
<1>b. /\ ~Does(c, "write_config") /\ ~Does(c, "save_policy") /\ ~Does(c, "truncate_config")
      /\ ~Does(c, "load_policy") /\ ~Does(c, "set_min")
  BY DEF Does
<1>1. policyFile' = policyFile /\ configFile' = configFile /\ (Readable' <=> Readable)
  BY <1>b, PolicyTurn, ConfigAlone
<1>2. Due(c, "set_invite")
  BY DoesIsDue DEF CTypes
<1>3. ~Due(c, "save_policy")' /\ ~Due(c, "set_min")'
  <2>1. /\ Leads(steps[c]) /\ Head(steps[c]) = "set_invite"
        /\ \A x : In(Tail(steps[c]), x) <=> Due(c, x)'
    BY <1>b, MinAhead
  <2> QED
    BY <2>1 DEF Leads
<1>4. policyFile = 0
  BY <1>a, <1>2 DEF Policied
<1>5. wanted[c] \notin Replicas
  BY <1>2, ConfigAssumption DEF GivenInv
<1>6. CASE Running(c)'
  <2>1. wanted'[c] = wanted[c] /\ config'[c].min > 0
    <3>1. config'[c].min = config[c].min \/ config'[c].min > 0
      BY <1>6, <1>b, Carried
    <3>2. wanted'[c] = wanted[c]
      BY <1>6, <1>b, Carried
    <3> QED
      BY <1>a, <3>1, <3>2 DEF Policied
  <2>2. Policied(c)'
    BY <1>1, <1>3, <1>4, <1>5, <2>1 DEF Policied, Applying
  <2> QED
    BY <1>a, <1>1, <1>6, <2>2 DEF Agreeing
<1>7. CASE ~Running(c)'
  BY <1>a, <1>1, <1>4, <1>7 DEF Agreeing
<1> QED
  BY <1>6, <1>7

LEMMA AgreeingSet ==
  ASSUME CTypes, CPlanInv, GivenInv, SerialInv, ~together', NEW c \in Clients, ClientStep(c),
         ~KillClient(c), Agreeing(c), Does(c, "set_min")
  PROVE  Agreeing(c)'
<1>a. Running(c) /\ Policied(c) /\ (Readable => configFile.min > 0) /\ Locals
  BY StepTurn DEF Agreeing, CTypes
<1>b. /\ ~Does(c, "write_config") /\ ~Does(c, "save_policy") /\ ~Does(c, "truncate_config")
      /\ ~Does(c, "load_policy") /\ ~Does(c, "set_invite")
  BY DEF Does
<1>1. policyFile' = policyFile /\ configFile' = configFile /\ (Readable' <=> Readable)
  BY <1>b, PolicyTurn, ConfigAlone
<1>2. /\ Due(c, "set_min") /\ ~Due(c, "load_policy") /\ ~Due(c, "save_policy")
      /\ ~In(Tail(steps[c]), "load_policy") /\ ~In(Tail(steps[c]), "save_policy")
      /\ ~In(Tail(steps[c]), "set_invite") /\ ~In(Tail(steps[c]), "set_min")
      /\ In(Tail(steps[c]), "write_config")
  <2>1. /\ Leads(steps[c]) /\ Head(steps[c]) = "set_min"
        /\ \A x : Due(c, x) <=> Does(c, x) \/ In(Tail(steps[c]), x)
    BY <1>a, HeadLeads
  <2>2. /\ ~In(Tail(steps[c]), "load_policy") /\ ~In(Tail(steps[c]), "save_policy")
        /\ ~In(Tail(steps[c]), "set_invite") /\ ~In(Tail(steps[c]), "set_min")
        /\ In(Tail(steps[c]), "write_config")
    BY <2>1 DEF Leads
  <2> QED
    BY <1>b, <2>1, <2>2
<1>3. /\ wanted[c] # 0 /\ policyFile = wanted[c]
      /\ Readable => configFile.min = config[c].min
      /\ ~halfApplied => policyFile = config[c].min \/ wanted[c] \in Replicas
  BY <1>a, <1>2 DEF Policied, Applying
<1>4. CASE Running(c)'
  <2>1. /\ config'[c].min = wanted[c] /\ wanted'[c] = wanted[c]
        /\ halfApplied' = halfApplied
    BY <1>4, <1>b, Carried, PolicyTurn
  <2>2. /\ ~Due(c, "load_policy")' /\ ~Due(c, "save_policy")' /\ ~Due(c, "set_invite")'
        /\ ~Due(c, "set_min")' /\ Due(c, "write_config")'
    BY <1>2, <1>4, MinAhead
  <2>3. wanted[c] \in Nat
    BY <1>2 DEF GivenInv
  <2>4. config'[c].min > 0
    BY <1>3, <2>1, <2>3
  <2>5. Policied(c)'
    BY <1>1, <1>3, <2>1, <2>2, <2>4 DEF Policied, Applying
  <2> QED
    BY <1>a, <1>1, <1>4, <2>5 DEF Agreeing
<1>5. CASE ~Running(c)'
  <2>1. config[c].min = wanted[c]
    BY <1>5, PolicyTurn
  <2> QED
    BY <1>a, <1>1, <1>3, <1>5, <2>1 DEF Agreeing
<1> QED
  BY <1>4, <1>5

LEMMA MinInvNext ==
  ASSUME CTypes, CPlanInv, GivenInv, MakingInv, SerialInv, MinInv, ConfigNext
  PROVE  MinInv'
<1>0. PICK c \in Clients : \/ \E plan \in MakePlans : Making(c, plan)
                           \/ \E todo \in Todos : Opening(c, todo)
                           \/ ClientStep(c)
  BY NextIsStep
<1>a. Locals /\ (Readable => configFile \in Config)
  BY DEF CTypes, VaultFiles
<1> SUFFICES ASSUME ~together' PROVE MinInv'
  BY DEF MinInv
<1>b. /\ ~together /\ (~ClientStep(c) => Quiescent)
      /\ \A d \in Clients : Running(d) \/ Running(d)' => d = c
  BY <1>0, OnlyClient
<1>c. Agreeing(c)
  <2>1. ~Running(c) => Quiescent
    BY <1>b DEF Quiescent
  <2> QED
    BY <1>b, <2>1 DEF MinInv, Agreeing, Policied
<1>d. SUFFICES Agreeing(c)'
  <2>1. Quiescent' => ~Running(c)'
    BY DEF Quiescent
  <2> QED
    BY <1>b, <1>d, <2>1 DEF MinInv, Agreeing, Policied
<1>1. CASE ~ClientStep(c) /\ \E plan \in MakePlans : Making(c, plan)
  <2>1. PICK plan \in MakePlans : Making(c, plan)
    BY <1>1
  <2>2. /\ UNCHANGED <<configFile, policyFile>> /\ folders = "none" /\ steps'[c] = plan
        /\ config'[c].min > 0
        /\ plan = JoinSteps => wanted'[c] \in Invites
        /\ plan # JoinSteps => wanted'[c] \in Replicas /\ config'[c].min = wanted'[c]
    BY <2>1 DEF Making, Launched
  <2>3. ~Readable' /\ policyFile' = 0
    BY <2>2 DEF MakingInv, Readable, Unreadable
  <2>4. Running(c)'
    BY <2>1, LaunchStep
  <2>5. ~Due(c, "set_min")' /\ (plan # JoinSteps <=> Due(c, "save_policy")')
    <3>1. CASE plan = JoinSteps
      <4>1. ~In(plan, "set_min") /\ ~In(plan, "save_policy")
        BY <3>1, InMakePlan
      <4> QED
        BY <2>2, <3>1, <4>1 DEF Due
    <3>2. CASE plan = CreateSteps(TRUE)
      <4>1. ~In(plan, "set_min") /\ In(plan, "save_policy") /\ ~In(JoinSteps, "save_policy")
        <5>1. \A x : In(plan, x) <=>
                x \in {"truncate_config", "write_config", "truncate_key", "write_key",
                       "make_folders", "save_policy", "truncate_wrapped", "write_wrapped",
                       "remove_key", "set_wrapped"}
          BY <3>2, InMakePlan
        <5>2. ~In(JoinSteps, "save_policy")
          BY InMakePlan
        <5> QED
          BY <5>1, <5>2
      <4> QED
        BY <2>2, <4>1 DEF Due
    <3>3. CASE plan = CreateSteps(FALSE)
      <4>1. ~In(plan, "set_min") /\ In(plan, "save_policy") /\ ~In(JoinSteps, "save_policy")
        <5>1. \A x : In(plan, x) <=>
                x \in {"truncate_config", "write_config", "truncate_key", "write_key",
                       "make_folders", "save_policy"}
          BY <3>3, InMakePlan
        <5>2. ~In(JoinSteps, "save_policy")
          BY InMakePlan
        <5> QED
          BY <5>1, <5>2
      <4> QED
        BY <2>2, <4>1 DEF Due
    <3> QED
      BY <3>1, <3>2, <3>3 DEF MakePlans
  <2>6. plan = JoinSteps => wanted'[c] \notin Replicas
    BY <2>2, ConfigAssumption
  <2>7. Policied(c)'
    BY <2>2, <2>3, <2>5, <2>6 DEF Policied, Applying
  <2> QED
    BY <2>3, <2>4, <2>7 DEF Agreeing
<1>2. CASE ~ClientStep(c) /\ \E todo \in Todos : Opening(c, todo)
  <2>1. PICK todo \in Todos : Opening(c, todo)
    BY <1>2
  <2>2. /\ UNCHANGED <<configFile, policyFile, halfApplied>>
        /\ steps'[c] = MigrationSteps(c) \o todo /\ config'[c] = Opened(c)
        /\ todo = ProtectSteps => wanted'[c] = 0
        /\ todo \notin {ProtectSteps, PolicySteps} => wanted'[c] \in Nodes
    BY <2>1 DEF Opening, Launched, configFiles
  <2>3. Readable /\ Readable' /\ Running(c)' /\ ~Running(c)
    BY <2>1, <2>2, OpeningHasKey, LaunchStep DEF Readable
  <2>4. Opened(c).min = configFile.min
    BY <1>a, <2>3, OpenedType
  <2>5. configFile.min > 0 /\ (~halfApplied => policyFile \in {0, configFile.min})
    BY <1>c, <2>3 DEF Agreeing
  <2>6. /\ ~Due(c, "set_invite")'
        /\ \A x \in {"load_policy", "save_policy", "set_min"} :
             Due(c, x)' <=> todo = PolicySteps
    <3>1. \A x \in {"load_policy", "save_policy", "set_min"} :
            In(todo, x) <=> todo = PolicySteps
      <4>1. CASE todo = ProtectSteps
        <5>1. \A x \in {"load_policy", "save_policy", "set_min"} :
                ~In(ProtectSteps, x) /\ In(PolicySteps, x)
          BY Parts
        <5> QED
          BY <4>1, <5>1
      <4>2. CASE todo = PolicySteps
        BY <4>2, Parts
      <4>3. CASE todo = <<"set_members">> \o WriteConfig
        <5>1. \A x \in {"load_policy", "save_policy", "set_min"} :
                ~In(todo, x) /\ In(PolicySteps, x)
          BY <4>3, Parts
        <5> QED
          BY <5>1
      <4> QED
        BY <4>1, <4>2, <4>3 DEF Todos
    <3>2. ~In(MigrationSteps(c) \o todo, "set_invite")
      BY OpenDue, TodoSteps
    <3>3. \A x \in {"load_policy", "save_policy", "set_min"} :
            In(MigrationSteps(c) \o todo, x) <=> In(todo, x)
      <4>1. ASSUME NEW x \in {"load_policy", "save_policy", "set_min"}
            PROVE  In(MigrationSteps(c) \o todo, x) <=> In(todo, x)
        <5>1. x \notin {"truncate_config", "write_config", "truncate_key", "write_key"}
          OBVIOUS
        <5> QED
          BY <5>1, OpenDue
      <4> QED
        BY <4>1
    <3> QED
      BY <2>2, <3>1, <3>2, <3>3 DEF Due
  <2>7. todo # PolicySteps => wanted'[c] \notin Replicas
    BY <2>2, ConfigAssumption
  <2>8. Policied(c)'
    BY <2>2, <2>3, <2>4, <2>5, <2>6, <2>7 DEF Policied, Applying
  <2> QED
    BY <2>2, <2>3, <2>5, <2>8 DEF Agreeing
<1>3. CASE ClientStep(c) /\ KillClient(c)
  <2>1. /\ ~Running(c)' /\ UNCHANGED <<configFile, policyFile>>
    BY <1>3, Killed
  <2>2. Running(c) /\ Policied(c)
    BY <1>3, <1>c, StepTurn DEF Agreeing
  <2>3. halfApplied' = (halfApplied \/ (wanted[c] \in Replicas /\ ~Due(c, "save_policy")))
    BY <1>3 DEF KillClient, Due, In
  <2>4. ~halfApplied' /\ Readable => policyFile \in {0, configFile.min}
    BY <2>2, <2>3 DEF Policied
  <2>5. Readable' <=> Readable
    BY <2>1 DEF Readable
  <2> QED
    BY <1>c, <2>1, <2>4, <2>5 DEF Agreeing
<1>4. CASE ClientStep(c) /\ ~KillClient(c)
  <2>1. CASE Does(c, "write_config")
    BY <1>4, <1>c, <2>1, AgreeingWrite
  <2>2. CASE Does(c, "save_policy")
    BY <1>4, <1>c, <2>2, AgreeingSave
  <2>3. CASE Does(c, "load_policy")
    BY <1>4, <1>c, <2>3, AgreeingLoad
  <2>4. CASE Does(c, "set_invite")
    BY <1>4, <1>c, <2>4, AgreeingInvite
  <2>5. CASE Does(c, "set_min")
    BY <1>4, <1>c, <2>5, AgreeingSet
  <2>6. CASE \A x \in Regulating : ~Does(c, x)
    BY <1>4, <1>c, <2>6, AgreeingIdle
  <2> QED
    BY <2>1, <2>2, <2>3, <2>4, <2>5, <2>6 DEF Regulating
<1> QED
  BY <1>0, <1>1, <1>2, <1>3, <1>4

-----------------------------------------------------------------------------
(* All of it together                                                      *)

LEMMA CInvInit ==
  ASSUME ConfigInit
  PROVE  CInv
<1>a. /\ \A c \in Clients : steps[c] = <<>> /\ config[c] = Blank
                            /\ pass[c] = NoFileYet /\ wanted[c] = 0
      /\ wrappedFile = NoFileYet /\ policyFile = 0 /\ born = legacy
      /\ together = FALSE /\ halfWritten = {} /\ halfApplied = FALSE /\ protected = FALSE
  BY DEF ConfigInit
<1>b. \/ /\ legacy = FALSE /\ folders = "none"
         /\ configFile = NoFileYet /\ keyFile = "absent"
      \/ /\ legacy = TRUE /\ folders = "all"
         /\ \/ configFile = [Blank EXCEPT !.embedded = TRUE] /\ keyFile = "absent"
            \/ configFile = Blank /\ keyFile = "key"
  BY DEF ConfigInit
<1>c. \A c \in Clients : ~Running(c) /\ \A x : ~Due(c, x) /\ ~Does(c, x)
  BY <1>a, NothingLeft DEF Running, Due, Does
<1>d. NoFileYet \in Unreadable
  BY DEF Unreadable
<1>e. Readable =>
        /\ configFile \in Config /\ configFile.signature = NoSignature /\ configFile.min > 0
        /\ legacy = TRUE /\ folders = "all" /\ configFile.wrapped = FALSE
        /\ keyFile = "key" \/ configFile.embedded
  <2>1. DefaultReplicas \in Nat /\ DefaultReplicas > 0
    BY ConfigAssumption
  <2> DEFINE old == [Blank EXCEPT !.embedded = TRUE]
  <2>2. old \in Config /\ old.signature = NoSignature /\ old.min = DefaultReplicas
        /\ old.wrapped = FALSE /\ old.embedded = TRUE
    BY BlankType, <2>1 DEF Blank, Config
  <2>3. Blank \in Config /\ Blank.signature = NoSignature /\ Blank.min = DefaultReplicas
        /\ Blank.wrapped = FALSE
    BY BlankType DEF Blank
  <2>4. configFile = NoFileYet => ~Readable
    BY <1>d DEF Readable
  <2> HIDE DEF old
  <2>5. \/ legacy = FALSE /\ configFile = NoFileYet
        \/ legacy = TRUE /\ folders = "all" /\ configFile = old
        \/ legacy = TRUE /\ folders = "all" /\ configFile = Blank /\ keyFile = "key"
    BY <1>b DEF old
  <2> QED
    BY <2>1, <2>2, <2>3, <2>4, <2>5
<1>f. legacy = TRUE => Readable
  <2>1. Blank \in Config
    BY BlankType
  <2>2. [Blank EXCEPT !.embedded = TRUE] \in Config
    BY <2>1 DEF Config
  <2> QED
    BY <1>b, <2>1, <2>2, ConfigAssumption DEF Readable
<1>1. CTypes
  <2>1. Locals
    <3>1. <<>> \in Seq(StepNames)
      BY NothingLeft
    <3>2. /\ steps = [c \in Clients |-> <<>>] /\ config = [c \in Clients |-> Blank]
          /\ pass = [c \in Clients |-> NoFileYet] /\ wanted = [c \in Clients |-> 0]
          /\ home = [c \in Clients |-> FALSE]
      BY DEF ConfigInit
    <3> QED
      BY <3>1, <3>2, BlankType DEF Locals
  <2>2. VaultFiles
    BY <1>a, <1>b, <1>d, <1>e DEF VaultFiles
  <2>3. commands \in Nat /\ legacy \in BOOLEAN
    BY <1>b DEF ConfigInit
  <2> QED
    BY <1>a, <2>1, <2>2, <2>3 DEF CTypes, Ghosts
<1>2. CPlanInv
  BY <1>a, NothingLeft DEF CPlanInv
<1>3. GivenInv
  BY <1>a, <1>c DEF GivenInv
<1>4. MakingInv
  BY <1>a, <1>b, <1>c, <1>e DEF MakingInv, Quiescent
<1>5. KeyInv
  BY <1>a, <1>b, <1>c, <1>e, <1>f DEF KeyInv, KeySafe
<1>6. SerialInv
  BY <1>a, <1>c DEF SerialInv
<1>7. SignInv
  BY <1>c, <1>e DEF SignInv, DatedConfig, Covering
<1>8. OpenInv
  <2>1. keyFile # "truncated"
    BY <1>b
  <2> QED
    BY <1>a, <1>c, <1>d, <1>f, <2>1 DEF OpenInv
<1>9. PlainInv
  BY <1>a, <1>c DEF PlainInv
<1>10. MinInv
  BY <1>a, <1>c, <1>e DEF MinInv
<1> QED
  BY <1>1, <1>2, <1>3, <1>4, <1>5, <1>6, <1>7, <1>8, <1>9, <1>10 DEF CInv

LEMMA CInvNext ==
  ASSUME CInv, [ConfigNext]_configVars
  PROVE  CInv'
<1>1. CASE ConfigNext
  BY <1>1, CTypesNext, PlanInvNext, GivenInvNext, MakingInvNext, KeyInvNext, SerialInvNext,
     SignInvNext, OpenInvNext, PlainInvNext, MinInvNext DEF CInv
<1>2. CASE UNCHANGED configVars
  <2>1. UNCHANGED <<configFile, keyFile, wrappedFile, policyFile, folders, steps, config, pass,
                    wanted, home, commands, born, legacy, together, halfWritten, halfApplied,
                    protected>>
    BY <1>2 DEF configVars, configFiles, configLocals, configGhosts
  <2>2. /\ Readable' <=> Readable
        /\ Quiescent' <=> Quiescent
        /\ \A c \in Clients : Running(c)' <=> Running(c)
        /\ \A c \in Clients : \A x : (Due(c, x)' <=> Due(c, x)) /\ (Does(c, x)' <=> Does(c, x))
    BY <2>1 DEF Readable, Quiescent, Running, Due, Does
  <2>3. CTypes' /\ CPlanInv' /\ GivenInv'
    BY <2>1, <2>2 DEF CInv, CTypes, Locals, VaultFiles, Ghosts, CPlanInv, GivenInv
  <2>4. MakingInv'
    BY <2>1, <2>2 DEF CInv, MakingInv
  <2>5. KeyInv'
    BY <2>1, <2>2 DEF CInv, KeyInv, KeySafe, WrapSafe, Spared
  <2>6. SerialInv' /\ SignInv'
    BY <2>1, <2>2 DEF CInv, SerialInv, SignInv
  <2>7. OpenInv'
    BY <2>1, <2>2 DEF CInv, OpenInv
  <2>8. PlainInv'
    BY <2>1, <2>2 DEF CInv, PlainInv
  <2>9. MinInv'
    BY <2>1, <2>2 DEF CInv, MinInv, Applying
  <2> QED
    BY <2>3, <2>4, <2>5, <2>6, <2>7, <2>8, <2>9 DEF CInv
<1> QED
  BY <1>1, <1>2

\* The invariant of the config files and of the commands that change them: what
\* is left of a command, what it has in memory and what it finds on disk fit
\* together, however many commands overlap and wherever they are killed.
THEOREM ConfigInvariant == ConfigSpec => []CInv
<1>1. ConfigInit => CInv
  BY CInvInit
<1>2. CInv /\ [ConfigNext]_configVars => CInv'
  BY CInvNext
<1> QED
  BY <1>1, <1>2, PTL DEF ConfigSpec

\* The types of the files and of what commands have in memory.
THEOREM ConfigTypes == ConfigSpec => []ConfigTypeOK
<1>1. CTypes => {born, legacy, together, halfApplied, protected} \subseteq BOOLEAN
  BY Zenon DEF CTypes, Ghosts
<1>2. VaultFiles => configFile \in Config \cup Unreadable
  BY DEF VaultFiles, Readable
<1>3. Locals => \A d \in Clients : config[d] \in Config /\ pass[d] \in Passphrases \cup {NoFileYet}
  BY DEF Locals
<1>4. CTypes => ConfigTypeOK
  BY <1>1, <1>2, <1>3 DEF CTypes, Locals, VaultFiles, Ghosts, ConfigTypeOK
<1>5. CInv => ConfigTypeOK
  BY <1>4 DEF CInv
<1> QED
  BY <1>5, ConfigInvariant, PTL

\* However commands overlap, the key stays on disk in one of its three forms or
\* is about to be written, unless a kill inside one of its two writes destroyed
\* it (create, open_with_passphrase, enable_passphrase).
THEOREM KeyIsKept == ConfigSpec => []KeyKept
<1>1. CInv => KeyKept
  <2>1. SUFFICES ASSUME CInv, born, "write_wrapped" \notin halfWritten,
                        "write_key" \in halfWritten => ~together
                 PROVE  KeyKept
    BY DEF KeyKept
  <2>2. KeySafe \/ (Readable /\ configFile.embedded)
    BY <2>1 DEF CInv, KeyInv, Spared
  <2> QED
    BY <2>2 DEF KeyKept, KeySafe, WrapSafe, Readable
<1> QED
  BY <1>1, ConfigInvariant, PTL

\* Used by one command at a time, a vault opens again with some passphrase, and
\* has its directories, unless a kill was inside a write.
THEOREM StaysOpenable == ConfigSpec => []Openable
<1>1. CInv => Openable
  <2>1. SUFFICES ASSUME CInv, born, Quiescent, ~together, halfWritten = {}, NEW c \in Clients
                 PROVE  (\E p \in Passphrases : Opens(c, p)) /\ folders = "all"
    <3>1. CInv /\ born => folders = "all"
      BY DEF CInv, MakingInv
    <3> QED
      BY <2>1, <3>1 DEF Openable
  <2>2. \A d \in Clients : \A x : ~Does(d, x) /\ ~Due(d, x)
    BY <2>1, DueRuns DEF Quiescent, Does
  <2>3. Readable /\ configFile \notin Unreadable
    BY <2>1, <2>2 DEF CInv, OpenInv, Readable
  <2>4. wrappedFile \notin Unreadable \ {NoFileYet} /\ keyFile # "truncated"
    BY <2>1, <2>2 DEF CInv, OpenInv
  <2>5. folders = "all"
    BY <2>1 DEF CInv, MakingInv
  <2>6. CASE wrappedFile \notin Unreadable
    <3>1. wrappedFile.id # NoId /\ configFile.id = wrappedFile.id
      BY <2>1, <2>3, <2>6 DEF CInv, OpenInv
    <3>2. wrappedFile.pass \in Passphrases
      BY <2>1, <2>6 DEF CInv, CTypes, VaultFiles, WrappedKey
    <3>3. UsesWrapped /\ wrappedFile.id = Id(c)
      BY <2>6, <3>1 DEF UsesWrapped, Id, Unreadable
    <3>4. Opens(c, wrappedFile.pass)
      BY <2>3, <2>6, <3>3 DEF Opens
    <3> QED
      BY <2>5, <3>2, <3>4
  <2>7. CASE wrappedFile = NoFileYet
    <3>1. ~UsesWrapped
      BY <2>1, <2>3, <2>7 DEF CInv, MakingInv, UsesWrapped
    <3>2. KeySafe \/ configFile.embedded
      BY <2>1 DEF CInv, KeyInv, Spared
    <3>3. keyFile = "key" \/ configFile.embedded
      BY <2>2, <2>7, <3>2 DEF KeySafe, WrapSafe, Unreadable
    <3>4. keyFile = "key" \/ Embedded
      BY <2>1, <2>4, <3>1, <3>3 DEF CInv, CTypes, VaultFiles, Embedded
    <3>5. PICK p \in Passphrases : TRUE
      BY ConfigAssumption
    <3>6. Opens(c, p)
      BY <2>3, <3>1, <3>4 DEF Opens
    <3> QED
      BY <2>5, <3>6
  <2> QED
    BY <2>4, <2>6, <2>7
<1> QED
  BY <1>1, ConfigInvariant, PTL

\* Used by one command at a time, once a protect has returned no plain key is on
\* disk, neither its file nor the field of an old config (enable_passphrase).
THEOREM PlainKeyIsGone == ConfigSpec => []PlainKeyGone
<1>1. CInv => PlainKeyGone
  BY DEF CInv, PlainInv, PlainKeyGone, Readable
<1> QED
  BY <1>1, ConfigInvariant, PTL

\* Used by one command at a time, policy.json and vault.json say the same
\* min_replicas between two commands (apply_policy).
THEOREM PolicyAgrees == ConfigSpec => []MinAgrees
<1>1. CInv => MinAgrees
  BY DEF CInv, MinInv, MinAgrees, Readable
<1> QED
  BY <1>1, ConfigInvariant, PTL

\* However commands overlap, a signature on disk covers its config, unless
\* one without the node key changed it since (sign_vault_config).
THEOREM SignaturesCover == ConfigSpec => []SignatureCovers
<1>1. CInv => SignatureCovers
  BY DEF CInv, SignInv, Covering, SignatureCovers, Readable
<1> QED
  BY <1>1, ConfigInvariant, PTL
=============================================================================
