---------------------------- MODULE Deprecation ----------------------------
(***************************************************************************)
(* The deprecation scan of staticcheck/lint.go, Checker.findDeprecated:    *)
(* ast.Inspect walks every file in preorder and calls fn on each node; fn  *)
(* collects doc comment groups in `docs` and declared identifiers in       *)
(* `names`, hands them to doDocs, and says whether Inspect descends into   *)
(* the node's children.  `docs` and `names` live across the whole walk.    *)
(*                                                                         *)
(* The walk is a stack of nodes still to visit; one step is one call of    *)
(* fn.  A doc comment group is abstracted to whether the last paragraph of *)
(* its text starts with "Deprecated: " and, if so, the rest of it.  An     *)
(* identifier stands for the object pkginfo.ObjectOf resolves it to.       *)
(***************************************************************************)
EXTENDS Integers, Sequences, SequencesExt

CONSTANTS
    Files,   \* candidate files: each a "file" node whose children are decls
    Msgs     \* the texts that can follow "Deprecated: "

VARIABLES
    file,    \* the file walked (fixed by Init)
    stack,   \* the nodes ast.Inspect has still to hand to fn, next first
    docs,    \* the docs slice of findDeprecated
    names,   \* the names slice of findDeprecated
    objs     \* c.deprecatedObjs: object -> replacement text

vars == <<file, stack, docs, names, objs>>

\* a doc comment group; NoDoc is a nil group or one with no such paragraph
NoDoc == [dep |-> FALSE, msg |-> ""]
DepDoc(m) == [dep |-> TRUE, msg |-> m]
Doc == {NoDoc} \cup {DepDoc(m) : m \in Msgs \cup {""}}

(* doDocs: the first non-nil doc whose last paragraph starts with          *)
(* "Deprecated: " gives alt (the loop breaks there); when alt is "" the    *)
(* names are left alone, else each is mapped to alt.                      *)
DoDocs(o, ns, ds) ==
    LET k == SelectInSeq(ds, LAMBDA d : d.dep)
    IN IF k = 0 \/ ds[k].msg = ""
       THEN o
       ELSE [n \in DOMAIN o \cup ToSet(ns) |->
                IF n \in ToSet(ns) THEN ds[k].msg ELSE o[n]]

\* the tail of fn without `names = nil`
FlushKeepNames(ns, ds) ==
    IF Len(ns) = 0 \/ Len(ds) = 0
    THEN /\ objs' = objs /\ docs' = ds /\ names' = ns
    ELSE /\ objs' = DoDocs(objs, ns, ds) /\ docs' = <<>> /\ names' = ns

\* the tail of fn: doDocs and the reset, unless nothing was collected
Flush(ns, ds) ==
    IF Len(ns) = 0 \/ Len(ds) = 0
    THEN /\ objs' = objs /\ docs' = ds /\ names' = ns
    ELSE /\ objs' = DoDocs(objs, ns, ds) /\ docs' = <<>> /\ names' = <<>>

Top == Head(stack)

\* Inspect descends: fn returned true, so the children come next
Descend == stack' = Top.children \o Tail(stack)
Skip == stack' = Tail(stack)

-----------------------------------------------------------------------------

Init ==
    /\ file \in Files
    /\ stack = <<file>>
    /\ docs = <<>>
    /\ names = <<>>
    /\ objs = [n \in {} |-> ""]

\* case *ast.File: return true
VisitFile ==
    /\ stack # <<>> /\ Top.kind = "file"
    /\ Descend
    /\ UNCHANGED <<file, docs, names, objs>>

(* case *ast.GenDecl: a type, const or var declaration adds its doc and   *)
(* descends into its specs; any other (import) is skipped.                 *)
VisitGenDecl ==
    /\ stack # <<>> /\ Top.kind = "gendecl"
    /\ IF Top.tok \in {"type", "const", "var"}
       THEN Descend /\ docs' = Append(docs, Top.doc)
       ELSE Skip /\ docs' = docs
    /\ UNCHANGED <<file, names, objs>>

\* case *ast.FuncDecl: its doc and name, flushed; the body is not visited
VisitFuncDecl ==
    /\ stack # <<>> /\ Top.kind = "funcdecl"
    /\ Flush(<<Top.name>>, Append(docs, Top.doc))
    /\ Skip
    /\ UNCHANGED file

\* a TypeSpec case returning false: the type's fields are not visited
VisitTypeSpecNoDescend ==
    /\ stack # <<>> /\ Top.kind = "typespec"
    /\ Flush(<<Top.name>>, Append(docs, Top.doc))
    /\ Skip
    /\ UNCHANGED file

\* case *ast.TypeSpec: its doc and name, flushed; then its children
VisitTypeSpec ==
    /\ stack # <<>> /\ Top.kind = "typespec"
    /\ Flush(<<Top.name>>, Append(docs, Top.doc))
    /\ Descend
    /\ UNCHANGED file

\* case *ast.ValueSpec: its doc and all its names, flushed; not descended
VisitValueSpec ==
    /\ stack # <<>> /\ Top.kind = "valuespec"
    /\ Flush(Top.names, Append(docs, Top.doc))
    /\ Skip
    /\ UNCHANGED file

(* case *ast.StructType and *ast.InterfaceType: doDocs on each field or    *)
(* method with its own doc alone, in order; docs and names are untouched;  *)
(* the fields' types are not visited.                                      *)
RECURSIVE DoFields(_, _)
DoFields(o, fs) ==
    IF fs = <<>> THEN o
    ELSE DoFields(DoDocs(o, Head(fs).names, <<Head(fs).doc>>), Tail(fs))

VisitFields ==
    /\ stack # <<>> /\ Top.kind \in {"struct", "interface"}
    /\ objs' = DoFields(objs, Top.fields)
    /\ Skip
    /\ UNCHANGED <<file, docs, names>>

\* default: return false (identifiers, comment groups, other expressions)
VisitOther ==
    /\ stack # <<>> /\ Top.kind = "other"
    /\ Skip
    /\ UNCHANGED <<file, docs, names, objs>>

\* ast.Inspect has returned; findDeprecated is done
Done == stack = <<>> /\ UNCHANGED vars

Next ==
    \/ VisitFile \/ VisitGenDecl \/ VisitFuncDecl \/ VisitTypeSpec
    \/ VisitValueSpec \/ VisitFields \/ VisitOther \/ Done

Spec == Init /\ [][Next]_vars /\ WF_vars(Next)


-----------------------------------------------------------------------------
(* Reference definitions (spec 4.3) and properties.                        *)

Specs(d) == IF d.kind = "gendecl" /\ d.tok \in {"type", "const", "var"}
            THEN ToSet(d.children) ELSE {}

\* the names a spec or a declaration declares, with its own doc
SpecDocs(s) ==
    IF s.kind = "valuespec" THEN {<<n, s.doc>> : n \in ToSet(s.names)}
    ELSE {<<s.name, s.doc>>} \cup
         UNION {{<<n, fd.doc>> : n \in ToSet(fd.names)} :
                    fd \in UNION {ToSet(t.fields) : t \in {t \in ToSet(s.children) : t.kind \in {"struct", "interface"}}}}

\* every declared name of the file with the doc written on it
OwnDocs == UNION {IF d.kind = "funcdecl" THEN {<<d.name, d.doc>>}
                  ELSE UNION {SpecDocs(s) : s \in Specs(d)} : d \in ToSet(file.children)}

\* the docs that belong to a name: its own, and its declaration group's
RelatedDocs == OwnDocs \cup
    UNION {{<<x[1], d.doc>> : x \in UNION {SpecDocs(s) : s \in Specs(d)}} : d \in ToSet(file.children)}

\* the objects the file declares
Name == {p[1] : p \in OwnDocs}

\* the nodes of the file, each reached from the file through children
RECURSIVE NodesOf(_)
NodesOf(n) == {n} \cup IF "children" \in DOMAIN n
                       THEN UNION {NodesOf(c) : c \in ToSet(n.children)} ELSE {}
Nodes == NodesOf(file)

\* type invariant; every declaration fn sees declares a name, so fn never
\* leaves names behind for the next node
TypeOK ==
    /\ file.kind = "file" /\ stack \in Seq(Nodes)
    /\ docs \in Seq(Doc)
    /\ names = <<>>
    /\ objs \in [DOMAIN objs -> Msgs] /\ DOMAIN objs \subseteq Name

(* When ast.Inspect has returned, every declared function, type, value,    *)
(* struct field or interface method whose own doc comment ends in a       *)
(* "Deprecated: " paragraph is in deprecatedObjs: the walk reaches it,     *)
(* fn collects its names and doDocs is called with its doc.                *)
DeprecatedNamesComplete ==
    stack = <<>> =>
        \A p \in OwnDocs : p[2].dep /\ p[2].msg # "" => p[1] \in DOMAIN objs

(* Spec 4.3: a deprecation message is associated with the names the doc    *)
(* comment group declares.  findDeprecated must never map a name to the    *)
(* message of a doc that is neither its own nor its declaration group's,   *)
(* whatever docs and names it carries from one node to the next.           *)
NoDeprecationFromUnrelatedDoc ==
    \A n \in DOMAIN objs :
        \E p \in RelatedDocs : p[1] = n /\ p[2].dep /\ p[2].msg = objs[n]

=============================================================================
