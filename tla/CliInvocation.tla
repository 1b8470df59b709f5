---------------------------- MODULE CliInvocation ----------------------------
(***************************************************************************)
(* What `eltanin run` makes of its argv and of its environment before it   *)
(* talks to the agent: `parse_run`, `ProfileName::parse`, `profile_dir`    *)
(* and `load_profile_from_dir`.                                            *)
(*                                                                         *)
(* An argument is a word.  The words in BadNames stand for the six kinds   *)
(* of raw values that are no profile name; any word may be part of the     *)
(* command to launch.                                                      *)
(***************************************************************************)
EXTENDS Naturals, Sequences

BadNames == {"empty", "not_utf8", "too_long", "with/slash", "..", "control"}

ValidName(word) == word \notin BadNames

\* The state of the loop in parse_run: what it has found, whether the next
\* argument is the value of --profile, and the error that ended it.
Unparsed == [profile |-> <<>>, value_next |-> FALSE, separator |-> FALSE,
             command |-> <<>>, error |-> "None"]

Fails(p, e) == [p EXCEPT !.error = e]

TakeValue(p, word) ==
    IF ValidName(word)
    THEN [p EXCEPT !.profile = <<word>>, !.value_next = FALSE]
    ELSE Fails(p, "InvalidProfileName")

\* Fault: a second --profile replaces the first.
LastProfileWins(p, word) ==
    IF p.error # "None" THEN p
    ELSE IF p.value_next THEN TakeValue(p, word)
    ELSE IF p.separator THEN [p EXCEPT !.command = Append(@, word)]
    ELSE IF word = "--" THEN [p EXCEPT !.separator = TRUE]
    ELSE IF word = "--profile" THEN [p EXCEPT !.value_next = TRUE]
    ELSE Fails(p, "UnrecognizedArgument")

\* One turn of the loop.  What follows the separator is not looked at.
ParseWord(p, word) ==
    IF p.error # "None" THEN p
    ELSE IF p.value_next THEN TakeValue(p, word)
    ELSE IF p.separator THEN [p EXCEPT !.command = Append(@, word)]
    ELSE IF word = "--" THEN [p EXCEPT !.separator = TRUE]
    ELSE IF word # "--profile" THEN Fails(p, "UnrecognizedArgument")
    ELSE IF p.profile # <<>> THEN Fails(p, "ProfileGivenTwice")
    ELSE [p EXCEPT !.value_next = TRUE]

\* The checks after the loop, in the order the code makes them.
Finish(p) ==
    IF p.error # "None" THEN p
    ELSE IF p.value_next THEN Fails(p, "ProfileMissingValue")
    ELSE IF ~p.separator THEN Fails(p, "MissingSeparator")
    ELSE IF p.profile = <<>> THEN Fails(p, "ProfileMissing")
    ELSE IF p.command = <<>> THEN Fails(p, "EmptyCommand")
    ELSE p

ParseRun(argv) ==
    IF argv = <<>> \/ Head(argv) # "run"
    THEN Fails(Unparsed, "NotRunSubcommand")
    ELSE LET after[n \in 1..Len(argv)] ==
                 IF n = 1 THEN Unparsed ELSE ParseWord(after[n - 1], argv[n])
         IN  Finish(after[Len(argv)])

\* The grammar `run --profile <name> -- <program> [args...]`.
InGrammar(argv) ==
    /\ Len(argv) >= 5
    /\ SubSeq(argv, 1, 2) = <<"run", "--profile">>
    /\ ValidName(argv[3])
    /\ argv[4] = "--"

-----------------------------------------------------------------------------
Directories == {"ELTANIN_PROFILE_DIR", "XDG_CONFIG_HOME", "HOME"}

Documents == {"missing", "unreadable", "not_json", "other_version", "current"}

\* The first variable that is set names the one directory that is searched,
\* whatever it holds.
ProfileDir(env) ==
    IF "ELTANIN_PROFILE_DIR" \in env THEN "ELTANIN_PROFILE_DIR"
    ELSE IF "XDG_CONFIG_HOME" \in env THEN "XDG_CONFIG_HOME"
    ELSE IF "HOME" \in env THEN "HOME"
    ELSE "NoSearchDir"

\* ProfileLoadError, or the directory whose document is used.
LoadProfile(env, docs) ==
    LET dir == ProfileDir(env)
    IN  IF dir = "NoSearchDir" \/ docs[dir] = "current" THEN dir
        ELSE [missing |-> "NotFound", unreadable |-> "Io", not_json |-> "Json",
              other_version |-> "Version"][docs[dir]]
=============================================================================
