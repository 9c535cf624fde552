------------------------------- MODULE Intake -------------------------------
(***************************************************************************)
(* The agent-controlled text on its way in: the command line client        *)
(* (crates/rp-cli/src/lib.rs), the broker's typed values                   *)
(* (crates/rp-broker-core/src/lib.rs) and the input of the signed request  *)
(* (OperationInput in crates/rp-protocol/src/schema.rs), three validators  *)
(* written apart for one grammar.                                          *)
(*                                                                         *)
(* A text is [word, first, rest, len]: the literal it spells, if a command *)
(* looks for it, the class of its first character, the classes of the      *)
(* others, and its bytes.  The client has no transport yet; that the words *)
(* it admits reach the broker unchanged is the protocol's.                 *)
(***************************************************************************)
EXTENDS Integers, Sequences, FiniteSetsExt

CONSTANTS Texts,     \* the arguments an agent may type
          MaxArgs    \* bound: arguments typed

CharClasses == {"lower", "digit", "plusdot", "dash", "under", "upper", "control", "other"}

ASSUME TextsAssumption ==
    /\ Texts \subseteq [word : STRING, first : CharClasses, rest : SUBSET CharClasses, len : Nat]
    /\ MaxArgs \in Nat

VARIABLES argv,      \* the arguments typed so far
          broker     \* what the broker has made of the request in argv

IntakeVars == <<argv, broker>>

Classes(t) == {t.first} \cup t.rest

\* The client's validators.
is_binary_package_name(t) ==
    /\ t.len \in 2..64
    /\ t.first \in {"lower", "digit"}
    /\ Classes(t) \subseteq {"lower", "digit", "plusdot", "dash"}

is_operation_key(t) ==
    t.len \in 16..128 /\ Classes(t) \subseteq {"lower", "upper", "digit", "dash", "under"}

is_safe_note(t) == t.len <= 512 /\ "control" \notin Classes(t)

\* parse_package_install: the ParseError, or "" with the request in place.
parse_package_install(args) ==
    LET n == Len(args)
        Arg(i) == IF i <= n THEN args[i]
                  ELSE [word |-> "", first |-> "other", rest |-> {}, len |-> 0]
        Refusals ==
            << <<Arg(1).word # "package" \/ Arg(2).word # "install", "InvalidCommand">>,
               <<n < 3, "MissingValue">>,
               <<~is_binary_package_name(Arg(3)), "InvalidPackageName">>,
               <<n < 4, "MissingValue">>,
               <<Arg(4).word # "--operation-key", "UnexpectedArgument">>,
               <<n < 5, "MissingValue">>,
               <<~is_operation_key(Arg(5)), "InvalidOperationKey">>,
               <<n > 5 /\ Arg(6).word # "--note", "UnexpectedArgument">>,
               <<n = 6, "MissingValue">>,
               <<n > 6 /\ ~is_safe_note(Arg(7)), "InvalidNote">>,
               <<n > 7, "UnexpectedArgument">> >>
        failed == {i \in DOMAIN Refusals : Refusals[i][1]}
    IN  IF failed = {} THEN "" ELSE Refusals[Min(failed)][2]

\* Injected fault: the broker wants three bytes at least.
PackageNameLonger(t) ==
    /\ t.len \in 3..64
    /\ t.first \in {"lower", "digit"}
    /\ t.rest \subseteq {"lower", "digit", "plusdot", "dash"}

\* The broker's validators: PackageName::parse and OperationKey::parse.
PackageName(t) ==
    /\ t.len \in 2..64
    /\ t.first \in {"lower", "digit"}
    /\ t.rest \subseteq {"lower", "digit", "plusdot", "dash"}

OperationKey(t) ==
    t.len \in 16..128 /\ Classes(t) \subseteq {"lower", "upper", "digit", "dash", "under"}

\* The request's validator: valid_package_name.
valid_package_name(t) ==
    /\ t.len \in 1..255
    /\ t.first = "lower"
    /\ t.rest \subseteq {"lower", "digit", "plusdot", "dash"}

IntakeInit == argv = <<>> /\ broker = "idle"

\* The agent types one more argument of a command that may still become one.
Type ==
    /\ Len(argv) < MaxArgs
    /\ broker = "idle"
    /\ \/ parse_package_install(argv) \in {"", "MissingValue"}
       \/ Len(argv) < 2
    /\ \E t \in Texts : argv' = Append(argv, t)
    /\ UNCHANGED broker

\* The broker types the request and stores it in planning, or refuses it.
SubmitTyped ==
    /\ broker = "idle"
    /\ parse_package_install(argv) = ""
    /\ broker' = IF PackageName(argv[3]) /\ OperationKey(argv[5]) THEN "planning" ELSE "refused"
    /\ UNCHANGED argv

\* prepare_for_decision: OperationInput::package_install of the stored name; a
\* refusal leaves the request in planning.
Prepare ==
    /\ broker = "planning"
    /\ broker' = IF valid_package_name(argv[3]) THEN "pending" ELSE "corrupt_state"
    /\ UNCHANGED argv

IntakeNext == Type \/ SubmitTyped \/ Prepare

IntakeSpec == IntakeInit /\ [][IntakeNext]_IntakeVars

\* Hazard: the client and the broker check one grammar apart.  What the client
\* admits the broker never refuses as invalid input.
ClientAgreesWithBroker == broker # "refused"

\* Engineering spec v2, SubmitPackageInstall: the grammar is "lowercase ASCII
\* letters/digits plus `+`, `-`, `.`", 2-64 bytes.  A request of that grammar can
\* be prepared: the frozen input never fails on the name the broker stored.
StoredNameCanBePrepared == broker # "corrupt_state"
=============================================================================
