------------------------------ MODULE MCIntake ------------------------------
(***************************************************************************)
(* Small instances of Intake for TLC: package names and keys at and past   *)
(* the ends of their ranges, and the words of the command.                 *)
(***************************************************************************)
EXTENDS Intake

Text(word, first, rest, len) == [word |-> word, first |-> first, rest |-> rest, len |-> len]

MCTexts ==
    {Text("package", "lower", {"lower"}, 7), Text("install", "lower", {"lower"}, 7),
     Text("--operation-key", "dash", {"dash", "lower"}, 15),
     Text("--note", "dash", {"dash", "lower"}, 6),
     Text("", "lower", {"digit"}, 2), Text("", "digit", {"lower", "plusdot"}, 64),
     Text("", "dash", {"lower"}, 2), Text("", "lower", {"lower"}, 1),
     Text("", "lower", {"lower"}, 65), Text("", "upper", {"under", "dash", "digit"}, 16),
     Text("", "upper", {"under"}, 128), Text("", "upper", {"lower"}, 129),
     Text("", "other", {"control"}, 20), Text("", "other", {"lower"}, 513)}
=============================================================================
