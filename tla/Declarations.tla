---------------------------- MODULE Declarations ----------------------------
(* Which nodes of a parsed source become chunks (the classifiers of          *)
(* src/chunking/*.rs and collect_chunks). The parser is external: a source    *)
(* is written here token by token, and its tree is any the grammar allows.     *)
EXTENDS Naturals, Sequences, FiniteSets

CONSTANTS
  DeclLang,     \* the languages checked
  MaxNodes,     \* bound: nodes of a source
  DeclBreaks    \* bound: line breaks and comments of a source

VARIABLES
  lang,         \* the language of the source
  text,         \* "open", "close", "break", "doc" (a /// or //! line), "note" (any other line)
  nodes         \* [kind, under, body, first, last]; last = 0 while the node is open

declVars == <<lang, text, nodes>>

Root == [kind |-> "root", under |-> 0, body |-> TRUE, first |-> 0, last |-> 0]

-----------------------------------------------------------------------------
(* The grammars, as far as the classifiers look: the kinds of node that may   *)
(* stand under a kind. A specifier's or a mod's body is a field of its own.     *)
RustItems == {"function_item", "struct_item", "trait_item", "impl_item", "mod_item"}
PyItems == {"function_definition", "class_definition", "decorated_definition"}
TsItems == {"function_declaration", "class_declaration", "interface_declaration",
            "variable_declarator", "arguments"}
CItems == {"function_definition", "struct_specifier", "preproc_def"}
CppItems == {"function_definition", "class_specifier", "struct_specifier",
             "namespace_definition"}
CsTypes == {"class_declaration", "interface_declaration"}
CsItems == CsTypes \cup {"namespace_declaration"}
JavaTypes == {"class_declaration", "record_declaration", "interface_declaration"}
SqlItems == {"create_table", "create_view", "create_function", "create_trigger"}

Under(l, kind) ==
  CASE l = "rust" /\ kind \in {"root", "mod_item", "function_item"} -> RustItems
    [] l = "rust" /\ kind = "impl_item" -> {"function_item"}
    [] l = "rust" /\ kind = "trait_item" -> {"function_item", "function_signature_item"}
    [] l = "python" /\ kind \in {"root", "function_definition", "class_definition"} -> PyItems
    [] l = "python" /\ kind = "decorated_definition" ->
         {"function_definition", "class_definition"}
    [] l = "typescript" /\ kind \in {"root", "function_declaration", "arrow_function"} -> TsItems
    [] l = "typescript" /\ kind = "class_declaration" -> {"method_definition"}
    [] l = "typescript" /\ kind \in {"variable_declarator", "arguments"} -> {"arrow_function"}
    [] l = "go" /\ kind = "root" ->
         {"function_declaration", "method_declaration", "type_declaration"}
    [] l = "go" /\ kind = "type_declaration" -> {"struct_spec", "interface_spec", "other_spec"}
    [] l = "c" /\ kind = "root" -> CItems
    [] l = "c" /\ kind \in {"function_definition", "struct_specifier"} -> {"struct_specifier"}
    [] l = "cpp" /\ kind \in {"root", "namespace_definition"} -> CppItems
    [] l = "cpp" /\ kind \in {"class_specifier", "struct_specifier"} ->
         {"function_definition", "class_specifier"}
    [] l = "cpp" /\ kind = "function_definition" -> {"class_specifier"}
    [] l = "csharp" /\ kind \in {"root", "namespace_declaration"} -> CsItems
    [] l = "csharp" /\ kind \in CsTypes -> {"method_declaration", "property_declaration"}
    [] l = "java" /\ kind = "root" -> JavaTypes
    [] l = "java" /\ kind \in JavaTypes ->
         {"method_declaration", "constructor_declaration", "class_declaration"}
    [] l = "sql" /\ kind = "root" -> SqlItems
    [] OTHER -> {}

(* Kinds that come with and without a body.                                   *)
Specifiers == {"mod_item", "struct_specifier", "class_specifier"}

DeclInit ==
  /\ lang \in DeclLang
  /\ text = <<>>
  /\ nodes = <<>>

Node(i) == IF i = 0 THEN Root ELSE nodes[i]
Open == {i \in 1..Len(nodes) : nodes[i].last = 0}
Innermost == IF Open = {} THEN 0 ELSE CHOOSE i \in Open : \A j \in Open : j <= i

Written(token) == Len(SelectSeq(text, LAMBDA t : t = token))

(* A line that has closed a node holds no other declaration: items begin their   *)
(* line unless the node around them begins it.                               *)
OpenNode ==
  /\ Len(nodes) < MaxNodes
  /\ text # <<>> => text[Len(text)] \in {"open", "break"}
  /\ \E kind \in Under(lang, Node(Innermost).kind), body \in BOOLEAN :
       /\ body \/ kind \in Specifiers
       /\ Node(Innermost).body
       /\ Node(Innermost).kind = "decorated_definition" =>
            ~\E i \in 1..Len(nodes) : nodes[i].under = Innermost
       /\ nodes' = Append(nodes, [kind |-> kind, under |-> Innermost, body |-> body,
                                  first |-> Len(text) + 1, last |-> 0])
  /\ text' = Append(text, "open")
  /\ UNCHANGED lang

CloseNode ==
  /\ Open # {}
  /\ Node(Innermost).kind \in {"decorated_definition", "type_declaration"} =>
       \E i \in 1..Len(nodes) : nodes[i].under = Innermost
  /\ nodes' = [nodes EXCEPT ![Innermost].last = Len(text) + 1]
  /\ text' = Append(text, "close")
  /\ UNCHANGED lang

BreakLine ==
  /\ Written("break") < DeclBreaks
  /\ \/ /\ text # <<>> /\ text[Len(text)] # "break"
        /\ text' = Append(text, "break")
     \/ /\ text # <<>> => text[Len(text)] = "break"
        /\ \E comment \in {"doc", "note"} : text' = text \o <<comment, "break">>
  /\ UNCHANGED <<lang, nodes>>

DeclNext == OpenNode \/ CloseNode \/ BreakLine

DeclSpec == DeclInit /\ [][DeclNext]_declVars

-----------------------------------------------------------------------------
Children(i) == {j \in 1..Len(nodes) : nodes[j].under = i}

(* The nodes around one: those that begin before it and end after it.            *)
Ancestors(i) ==
  {j \in 1..Len(nodes) : nodes[j].first < nodes[i].first /\ nodes[i].last < nodes[j].last}

RustKind(i) ==
  CASE nodes[i].kind = "function_item" ->
         IF \E a \in Ancestors(i) : nodes[a].kind = "impl_item" THEN "method" ELSE "function"
    [] nodes[i].kind = "function_signature_item" -> "method"
    [] nodes[i].kind = "struct_item" -> "struct"
    [] nodes[i].kind = "trait_item" -> "trait"
    [] nodes[i].kind = "impl_item" -> "impl"
    [] nodes[i].kind = "mod_item" /\ nodes[i].body -> "module"
    [] OTHER -> "none"

PythonKind(i) ==
  CASE nodes[i].kind = "function_definition" -> "function"
    [] nodes[i].kind = "decorated_definition" /\
         (\E j \in Children(i) : nodes[j].kind = "function_definition") -> "function"
    [] nodes[i].kind = "class_definition" /\
         Node(nodes[i].under).kind # "decorated_definition" -> "class"
    [] OTHER -> "none"

TypeScriptKind(i) ==
  CASE nodes[i].kind = "function_declaration" -> "function"
    [] nodes[i].kind = "arrow_function" /\
         Node(nodes[i].under).kind = "variable_declarator" -> "function"
    [] nodes[i].kind = "method_definition" -> "method"
    [] nodes[i].kind = "class_declaration" -> "class"
    [] nodes[i].kind = "interface_declaration" -> "interface"
    [] OTHER -> "none"

GoKind(i) ==
  CASE nodes[i].kind = "function_declaration" -> "function"
    [] nodes[i].kind = "method_declaration" -> "method"
    [] nodes[i].kind = "type_declaration" ->
         IF \E j \in Children(i) : nodes[j].kind = "struct_spec" THEN "struct"
         ELSE IF \E j \in Children(i) : nodes[j].kind = "interface_spec" THEN "interface"
         ELSE "none"
    [] OTHER -> "none"

CKind(i) ==
  CASE nodes[i].kind = "function_definition" -> "function"
    [] nodes[i].kind = "struct_specifier" /\ nodes[i].body -> "struct"
    [] nodes[i].kind = "preproc_def" -> "macro"
    [] OTHER -> "none"

(* The walk up from a function stops at the first type body or namespace.         *)
InsideTypeBody(i) ==
  LET ends == {a \in Ancestors(i) : nodes[a].kind \in
                 {"class_specifier", "struct_specifier", "namespace_definition"}}
  IN \E a \in ends : (\A b \in ends : b <= a) /\ nodes[a].kind # "namespace_definition"

CppKind(i) ==
  CASE nodes[i].kind = "function_definition" ->
         IF InsideTypeBody(i) THEN "method" ELSE "function"
    [] nodes[i].kind = "class_specifier" /\ nodes[i].body -> "class"
    [] nodes[i].kind = "struct_specifier" /\ nodes[i].body -> "struct"
    [] nodes[i].kind = "namespace_definition" -> "module"
    [] OTHER -> "none"

CSharpKind(i) ==
  CASE nodes[i].kind = "namespace_declaration" -> "module"
    [] nodes[i].kind = "class_declaration" -> "class"
    [] nodes[i].kind = "interface_declaration" -> "interface"
    [] nodes[i].kind \in {"method_declaration", "property_declaration"} -> "method"
    [] OTHER -> "none"

JavaKind(i) ==
  CASE nodes[i].kind \in {"class_declaration", "record_declaration"} -> "class"
    [] nodes[i].kind = "interface_declaration" -> "interface"
    [] nodes[i].kind \in {"method_declaration", "constructor_declaration"} -> "method"
    [] OTHER -> "none"

SqlKind(i) ==
  CASE nodes[i].kind = "create_table" -> "table"
    [] nodes[i].kind = "create_view" -> "view"
    [] nodes[i].kind = "create_function" -> "function"
    [] nodes[i].kind = "create_trigger" -> "trigger"
    [] OTHER -> "none"

KindOf(i) ==
  CASE lang = "rust" -> RustKind(i)
    [] lang = "python" -> PythonKind(i)
    [] lang = "typescript" -> TypeScriptKind(i)
    [] lang = "go" -> GoKind(i)
    [] lang = "csharp" -> CSharpKind(i)
    [] lang = "sql" -> SqlKind(i)
    [] lang = "java" -> JavaKind(i)
    [] lang = "c" -> CKind(i)
    [] lang = "cpp" -> CppKind(i)

(* Where a line of the text begins, and the line a token stands on.               *)
LineStarts == {1} \cup {q + 1 : q \in {q \in 1..Len(text) : text[q] = "break"}}
LineStart(p) == CHOOSE s \in LineStarts : s <= p /\ \A t \in LineStarts : t <= p => t <= s

ExtendOverAnyLine(p) ==
  LET above == {s \in LineStarts : s < LineStart(p)}
  IN IF above = {} THEN p ELSE CHOOSE s \in above : \A t \in above : t <= s

(* The lines of doc comment right above a node's line join it.                     *)
ExtendStartForRustDocs(p) ==
  LET docs == {s \in LineStarts : /\ s < LineStart(p)
                                  /\ \A t \in LineStarts : t \in s..(LineStart(p) - 1) =>
                                       text[t] = "doc"}
  IN IF docs = {} THEN p ELSE CHOOSE s \in docs : \A t \in docs : s <= t

BuildChunk(i) ==
  [node |-> i, kind |-> KindOf(i), last |-> nodes[i].last,
   first |-> IF lang = "rust" THEN ExtendStartForRustDocs(nodes[i].first) ELSE nodes[i].first]

Parsed == text # <<>> /\ Open = {}
CollectChunks == {BuildChunk(i) : i \in {i \in 1..Len(nodes) : KindOf(i) # "none"}}

-----------------------------------------------------------------------------
DeclTypeOK ==
  /\ lang \in DeclLang
  /\ \A i \in 1..Len(nodes) : nodes[i].under \in 0..(i - 1)
  /\ Parsed => \A c \in CollectChunks : c.first \in 1..c.last

(* A chunk's id is a hash of its range (chunking/mod.rs:410), and the store        *)
(* replaces a file's rows by it: no two chunks of a source have one range, and       *)
(* chunks overlap only where a declaration stands inside another, wherever the         *)
(* doc comments over an item have moved its start.                               *)
ChunksNest ==
  Parsed =>
    \A c, d \in CollectChunks : c # d =>
      /\ <<c.first, c.last>> # <<d.first, d.last>>
      /\ \/ c.last < d.first \/ d.last < c.first
         \/ c.node \in Ancestors(d.node) /\ c.first <= d.first /\ d.last <= c.last
         \/ d.node \in Ancestors(c.node) /\ d.first <= c.first /\ c.last <= d.last
=============================================================================
