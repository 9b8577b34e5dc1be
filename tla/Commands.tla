------------------------------ MODULE Commands ------------------------------
(***************************************************************************)
(* The registry of command blocks and the editor of command lines          *)
(* (src/cmd.c, src/ui.c). Modules register blocks of commands and take     *)
(* them out again, the menu with every call; the user presses keys. A      *)
(* command has a key, a long name (a sequence of characters), and flags.   *)
(***************************************************************************)
EXTENDS Integers, Sequences, SequencesExt

CONSTANTS
    Commands,  \* Commands[b]: the commands of block b, see Command
    Keys,      \* keys that may be pressed, besides the special ones
    Digits,    \* those that are digits
    Space,     \* the one between the words of a line
    MaxLine    \* bound on the length of a line that is edited

Blocks == DOMAIN Commands
Command == UNION {Commands[b] : b \in Blocks}
Special == {"enter", "esc", "del", "tab", "rel", "/"}

\* Two commands that no key and no long name can mean at once.
Differ(c, d) == (c.key = "none" \/ c.key # d.key) /\ (c.name = <<>> \/ c.name # d.name)

\* What is assumed of the constants; the module that gives them values asserts it. The
\* tables of the modules (cmdv) name each key and each word once, and no name has a space.
CommandsAssumption ==
    /\ Digits \subseteq Keys /\ Keys \cap Special = {} /\ MaxLine \in Nat
    /\ \A c \in Command : /\ c.key \in Keys \cup {"none"} /\ c.name \in Seq(Keys)
                          /\ c.prm \in BOOLEAN /\ c.prog \in BOOLEAN
                          /\ Space \notin ToSet(c.name)
    /\ \A b \in Blocks : \A c, d \in Commands[b] : c # d => Differ(c, d)

VARIABLES
    cmdl,       \* the registered blocks
    ctx,        \* the line under edit, or NoCtx
    called,     \* the call of a handler by the last key, or NoCall
    completed   \* the command that the last key, TAB, completed, or None

vars == <<cmdl, ctx, called, completed>>

None == [key |-> "none", name |-> <<>>, prm |-> FALSE, prog |-> FALSE]
NoCtx == [on |-> FALSE, cmd |-> None, long |-> FALSE, line |-> <<>>]
NoCall == [on |-> FALSE, cmd |-> None, prm |-> <<>>, complete |-> FALSE]

TypeOK ==
    /\ cmdl \in Seq(Blocks) /\ IsInjective(cmdl)
    /\ ctx = NoCtx \/ (ctx.on /\ ctx.long = (ctx.cmd = None))
    /\ called.cmd \in Command \cup {None} /\ completed \in Command \cup {None}

Init == cmdl = <<>> /\ ctx = NoCtx /\ called = NoCall /\ completed = None

-----------------------------------------------------------------------------
(* The registry. *)

Registered == UNION {Commands[b] : b \in ToSet(cmdl)}

\* cmd_find_by_key, cmd_find_long, as the set of commands that may be found.
ByKey(k) == {c \in Registered : c.key = k /\ k # "none"}
ByName(n) == {c \in Registered : c.name = n /\ n # <<>>}

\* Mutant: only the keys are looked at.
MayRegisterByKey(b) ==
    /\ b \notin ToSet(cmdl)
    /\ \A c \in Commands[b] : ByKey(c.key) = {}

\* The tests of cmd_register.
MayRegister(b) ==
    /\ b \notin ToSet(cmdl)
    /\ \A c \in Commands[b] : ByKey(c.key) = {} /\ c.key # "/" /\ ByName(c.name) = {}

\* cmd_register; a block that may not be registered is refused.
CmdRegister(b) ==
    /\ MayRegister(b)
    /\ cmdl' = Append(cmdl, b)
    /\ UNCHANGED <<ctx, called, completed>>

\* cmd_unregister.
CmdUnregister(b) ==
    /\ b \in ToSet(cmdl)
    /\ cmdl' = RemoveFirst(cmdl, b)
    /\ UNCHANGED <<ctx, called, completed>>

-----------------------------------------------------------------------------
(* The editor. A key turns the line c into Line, may call a handler (Report) and *)
(* may end the edit (Ends). *)

\* get_match_long: the commands whose long name begins with the line.
Matches(line) == {c \in Registered : c.name # <<>> /\ IsPrefix(line, c.name)}
OneMatch(line) == \E c \in Registered : Matches(line) = {c}

\* TAB: the name, if there is one match only.
Tab(line) ==
    IF OneMatch(line) THEN (CHOOSE c \in Matches(line) : TRUE).name ELSE line

\* editor_input.
Edited(c, k) ==
    IF k \in {"esc", "enter", "rel"} THEN c.line
    ELSE IF k = "del" THEN IF c.line = <<>> THEN <<>> ELSE Front(c.line)
    ELSE IF k = "tab" /\ c.long THEN Tab(c.line)
    ELSE Append(c.line, k)

\* cmd_process_long: the first word is the name, the rest the parameter.
LongCall(line) ==
    LET text == SelectInSeq(line, LAMBDA x : x # Space)
        rest == IF text = 0 THEN <<>> ELSE SubSeq(line, text, Len(line))
        gap == SelectInSeq(rest, LAMBDA x : x = Space)
        name == IF gap = 0 THEN rest ELSE SubSeq(rest, 1, gap - 1)
        tail == IF gap = 0 THEN <<>> ELSE SubSeq(rest, gap, Len(rest))
        word == SelectInSeq(tail, LAMBDA x : x # Space)
        prm == IF word = 0 THEN <<>> ELSE SubSeq(tail, word, Len(tail))
    IN  IF ByName(name) = {} THEN NoCall
        ELSE [on |-> TRUE, cmd |-> CHOOSE c \in ByName(name) : TRUE, prm |-> prm, complete |-> TRUE]

\* cmd_process_edit: what it calls. With CMD_PROG each key is told.
Report(c, k) ==
    LET line == Edited(c, k)
    IN  IF c.long THEN IF k = "enter" THEN LongCall(line) ELSE NoCall
        ELSE IF k = "enter" \/ c.cmd.prog
             THEN [on |-> TRUE, cmd |-> c.cmd, prm |-> line, complete |-> k = "enter"]
        ELSE NoCall

\* cmd_process_edit: the edit after it.
Line(c, k) == IF k \in {"enter", "esc"} THEN NoCtx ELSE [c EXCEPT !.line = Edited(c, k)]

\* cmd_process while a line is edited; the release of a key is ignored.
KeyEdit(k) ==
    /\ ctx.on /\ (k \in Keys \cup {"tab", "/"} => Len(ctx.line) < MaxLine)
    /\ IF k = "rel" THEN UNCHANGED <<ctx, called, completed>>
       ELSE /\ called' = Report(ctx, k)
            /\ ctx' = Line(ctx, k)
            /\ completed' = IF k = "tab" /\ ctx.long /\ OneMatch(ctx.line)
                            THEN CHOOSE c \in Matches(ctx.line) : TRUE ELSE None
    /\ UNCHANGED cmdl

\* cmd_process of the key of a command: it is called, or its line is opened, with
\* the key in it if that is a digit.
KeyCommand(k) ==
    /\ ~ctx.on /\ ByKey(k) # {}
    /\ LET cmd == CHOOSE c \in ByKey(k) : TRUE
           open == [on |-> TRUE, cmd |-> cmd, long |-> FALSE, line |-> <<>>]
           first == IF k \in Digits THEN k ELSE "rel"
       IN  IF cmd.prm
           THEN called' = Report(open, first) /\ ctx' = Line(open, first)
           ELSE /\ called' = [on |-> TRUE, cmd |-> cmd, prm |-> <<>>, complete |-> TRUE]
                /\ UNCHANGED ctx
    /\ completed' = None
    /\ UNCHANGED cmdl

\* Mutant: the line is not marked as long.
KeyPrefixShort ==
    /\ ~ctx.on
    /\ ctx' = [on |-> TRUE, cmd |-> None, long |-> FALSE, line |-> <<>>]
    /\ called' = NoCall /\ completed' = None
    /\ UNCHANGED cmdl

\* cmd_process of the prefix of long commands.
KeyPrefix ==
    /\ ~ctx.on
    /\ ctx' = [on |-> TRUE, cmd |-> None, long |-> TRUE, line |-> <<>>]
    /\ called' = NoCall /\ completed' = None
    /\ UNCHANGED cmdl

\* ui_reset.
UiReset ==
    /\ ctx' = NoCtx /\ called' = NoCall /\ completed' = None
    /\ UNCHANGED cmdl

Next ==
    \/ \E b \in Blocks : CmdRegister(b) \/ CmdUnregister(b)
    \/ \E k \in Keys \cup Special : KeyEdit(k)
    \/ \E k \in Keys : KeyCommand(k)
    \/ KeyPrefix \/ UiReset
Spec == Init /\ [][Next]_vars

-----------------------------------------------------------------------------
\* Through every order in which modules register and unregister blocks, a key and a
\* long name find one command at most.
FindsOne == \A c, d \in Registered : c # d => Differ(c, d)

\* The line that TAB has completed calls, with Enter, the command it was completed
\* to, whatever blocks came and went before.
TabFindsCommand ==
    completed # None /\ ctx.on /\ completed \in Registered => LongCall(ctx.line).cmd = completed

\* "Unregister commands" (cmd_unregister): after it none of them is called.
CalledIsRegistered == [][called' # called => called'.cmd \in Registered \cup {None}]_vars

\* "Cancel" (editor_input): a line that is cancelled calls no handler.
CancelIsSilent == [][\A k \in {"esc"} : KeyEdit(k) => ~called'.on]_vars
=============================================================================
