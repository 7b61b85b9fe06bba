---------------------------- MODULE Instructions ----------------------------
(* internal/instruction/load.go: the memory files (AGENTS.md, the files it   *)
(* @includes, AGENTS.d/) assembled into the system prompt.  One Load walks   *)
(* the scopes in order, each file line by line, descending into an include   *)
(* where it stands; the stack is the recursion of loadFile and               *)
(* processIncludes.  A line is what the loader tells apart: text, a rule,    *)
(* a fence marker, an include of a file.  Paths are canonical: a file is     *)
(* itself under any name, and lies inside the scope roots "in" lists.        *)
EXTENDS Naturals, Sequences, FiniteSets, SequencesExt

CONSTANTS
    Files,              \* canonical paths
    Roots,              \* scope roots, in the order LoadForSession visits them
    Trees,              \* what is on disk: [lines, cut, in, kind, primary, dir, broken]
    maxIncludeDepth,
    maxFileLines        \* maxFileBytes, in lines

VARIABLES
    tree,       \* the directory tree, fixed for the load
    scope,      \* index in Roots of the scope being loaded
    todo,       \* the scope's files not yet loaded
    stack,      \* loadFile's frames, innermost last
    visited,
    out,        \* the instruction: [file, line] in the order written
    sources,
    result      \* "loading", "ok" or "error"

vars == <<tree, scope, todo, stack, visited, out, sources, result>>

Init ==
    /\ tree \in Trees
    /\ scope = 0
    /\ todo = <<>>
    /\ stack = <<>>
    /\ visited = {}
    /\ out = <<>>
    /\ sources = <<>>
    /\ result = "loading"

Fail == result' = "error" /\ UNCHANGED <<tree, scope, todo, stack, visited, out, sources>>

(* loadScope: the first primary file that exists, then AGENTS.d in lexical   *)
(* order.                                                                    *)
Entries(root) ==
    (IF tree.primary[root] = <<>> THEN <<>> ELSE <<Head(tree.primary[root])>>) \o tree.dir[root]

(* A root that cannot be probed, or that a caller's name would place outside *)
(* the users' directory, ends the load.                                      *)
Unreadable == scope < Len(Roots) /\ Roots[scope + 1] \in tree.broken
Refuse == result = "loading" /\ stack = <<>> /\ todo = <<>> /\ Unreadable /\ Fail

loadScopeForgetting ==
    /\ result = "loading" /\ stack = <<>> /\ todo = <<>> /\ ~Unreadable
    /\ IF scope < Len(Roots)
       THEN /\ scope' = scope + 1 /\ todo' = Entries(Roots[scope + 1]) /\ visited' = {}
            /\ UNCHANGED result
       ELSE result' = "ok" /\ UNCHANGED <<scope, todo, visited>>
    /\ UNCHANGED <<tree, stack, out, sources>>

loadScope ==
    /\ result = "loading" /\ stack = <<>> /\ todo = <<>> /\ ~Unreadable
    /\ IF scope < Len(Roots)
       THEN scope' = scope + 1 /\ todo' = Entries(Roots[scope + 1]) /\ UNCHANGED result
       ELSE result' = "ok" /\ UNCHANGED <<scope, todo>>
    /\ UNCHANGED <<tree, stack, visited, out, sources>>

(* readUpTo: the lines within the cap, and what the cut leaves of the next.  *)
Read(f) ==
    LET lines == tree.lines[f]
    IN  IF Len(lines) > maxFileLines THEN SubSeq(lines, 1, maxFileLines) \o tree.cut[f] ELSE lines

(* stripFrontmatter: a rule on the first line and the next one enclose a     *)
(* block that is dropped; a rule that is not answered is text.               *)
stripFrontmatter(lines) ==
    LET closing == {i \in 2..Len(lines) : lines[i].kind = "rule"}
    IN  IF lines # <<>> /\ lines[1].kind = "rule" /\ closing # {}
        THEN SubSeq(lines, Min(closing) + 1, Len(lines)) ELSE lines

(* What of the file processIncludes sees: the truncation marker is a last    *)
(* line of text.  No caller supplies an interpolator.                        *)
Body(f) ==
    IF Len(tree.lines[f]) > maxFileLines
    THEN Append(stripFrontmatter(Read(f)), [kind |-> "text"]) ELSE stripFrontmatter(Read(f))

(* loadFile, up to the lines.  A file over the cap whose cut falls inside a  *)
(* character is no longer valid UTF-8.                                       *)
Valid(f) == tree.kind[f] = "text" \/ (tree.kind[f] = "split" /\ Len(tree.lines[f]) <= maxFileLines)
Frame(f) == [file |-> f, line |-> 1, fence |-> FALSE]

loadFile(f, frames) ==
    IF Len(frames) > maxIncludeDepth THEN Fail
    ELSE IF f \in visited
    THEN stack' = frames /\ UNCHANGED <<tree, scope, visited, out, sources, result>>
    ELSE IF ~Valid(f) THEN Fail
    ELSE /\ stack' = Append(frames, Frame(f))
         /\ visited' = visited \cup {f}
         /\ sources' = Append(sources, f)
         /\ UNCHANGED <<tree, scope, out, result>>

Enter ==
    /\ result = "loading" /\ stack = <<>> /\ todo # <<>>
    /\ loadFile(Head(todo), <<>>)
    /\ IF result' = "error" THEN TRUE ELSE todo' = Tail(todo)

-----------------------------------------------------------------------------
(* processIncludes, one line.                                                *)

Top == stack[Len(stack)]
Line == Body(Top.file)[Top.line]
Step(fence) == [stack EXCEPT ![Len(stack)].line = @ + 1, ![Len(stack)].fence = fence]
Literal == Line.kind \in {"text", "rule", "backticks", "tildes"} \/ Top.fence

Write ==
    /\ result = "loading" /\ stack # <<>> /\ Top.line <= Len(Body(Top.file)) /\ Literal
    /\ stack' = Step(IF Line.kind \in {"backticks", "tildes"} THEN ~Top.fence ELSE Top.fence)
    /\ out' = Append(out, [file |-> Top.file, line |-> Top.line])
    /\ UNCHANGED <<tree, scope, todo, visited, sources, result>>

(* validateIncludePath, ensureWithinScope and the stat; then the file's      *)
(* content in the directive's place.                                         *)
IncludeOK == Line.kind = "include" /\ Line.to \in Files /\ Roots[scope] \in tree.in[Line.to]

Include ==
    /\ result = "loading" /\ stack # <<>> /\ Top.line <= Len(Body(Top.file)) /\ ~Literal
    /\ IF IncludeOK THEN loadFile(Line.to, Step(Top.fence)) ELSE Fail
    /\ UNCHANGED todo

Return ==
    /\ result = "loading" /\ stack # <<>> /\ Top.line > Len(Body(Top.file))
    /\ stack' = Front(stack)
    /\ UNCHANGED <<tree, scope, todo, visited, out, sources, result>>

Next == loadScope \/ Refuse \/ Enter \/ Write \/ Include \/ Return

Spec == Init /\ [][Next]_vars /\ WF_vars(Next)

-----------------------------------------------------------------------------
TypeOK ==
    /\ scope \in 0..Len(Roots)
    /\ visited \subseteq Files
    /\ Len(stack) <= maxIncludeDepth + 1
    /\ result \in {"loading", "ok", "error"}

(* The reference: which lines of a file are includes the loader follows, and *)
(* which files are reached from the entries through them.                    *)
Fenced(f, i) ==
    Cardinality({j \in 1..(i - 1) : Body(f)[j].kind \in {"backticks", "tildes"}}) % 2 = 1
Followed(f) == {i \in DOMAIN Body(f) : Body(f)[i].kind = "include" /\ ~Fenced(f, i)}
Targets(f) == {Body(f)[i].to : i \in Followed(f)}
Starts == UNION {Range(Entries(Roots[i])) : i \in DOMAIN Roots}
Closed(S) == Starts \subseteq S /\ \A f \in S : Targets(f) \subseteq S
Reached == CHOOSE S \in SUBSET Files : Closed(S) /\ \A T \in SUBSET Files : Closed(T) => S \subseteq T
LinesOf(f) == SelectSeq([i \in DOMAIN Body(f) |-> i], LAMBDA i : i \notin Followed(f))
Written(f) ==
    LET mine == SelectSeq(out, LAMBDA e : e.file = f) IN [i \in DOMAIN mine |-> mine[i].line]

(* EveryFileOnce: a load that succeeds holds each file reached from a        *)
(* scope's entries exactly once, its own lines all there and in their order  *)
(* however the includes cross, cycle or repeat, and nothing else; Sources    *)
(* names those files (loadFile's visited set, shared by every scope).        *)
EveryFileOnce ==
    result = "ok" =>
        LET reached == Reached
        IN  /\ \A f \in Files : Written(f) = IF f \in reached THEN LinesOf(f) ELSE <<>>
            /\ Len(sources) = Cardinality(reached) /\ Range(sources) = reached
=============================================================================
