-------------------------- MODULE FunctionTemplates --------------------------
(***************************************************************************)
(* A function template of one name from its declaration to code: implicit  *)
(* and explicit instantiations and specializations (module.cpp, func.cpp,  *)
(* expr.cpp), and the bodies that GenerateIR gives to LLVM functions.      *)
(* Template arguments are opaque values.  A specialization has the         *)
(* parameters and the return type of the template for its arguments.       *)
(***************************************************************************)
EXTENDS Integers, Sequences, SequencesExt, TLC

CONSTANTS
    TemplateArgs,   \* lists of template arguments
    MaxTemplateOps  \* bound: declarations and calls in the program

VARIABLES
    primary,        \* the TemplateSymbol: storage class and "unmasked", or NoTemplate
    definitions,    \* definitions[d]: instantiations of the d-th FunctionTemplate; the last one is
                    \* the TemplateSymbol's functionTemplate
    symbols,        \* symbols[s]: arguments, "unmasked", body of the symbol's parentFunction
    uses,           \* calls: arguments, symbol, and the bodies that C++ rules allow for it
    body,           \* body[f]: code of LLVM function f once IR is generated
    reported,       \* whether an error was reported
    ops             \* declarations and calls so far

templateVars == <<primary, definitions, symbols, uses, body, reported, ops>>

NoTemplate == [storage |-> "none", unmasked |-> FALSE, declared |-> FALSE]
NoBody == <<"none", 0>>
PrimaryBody(d) == <<"primary", d>>
SpecialBody(n) == <<"special", n>>

TemplateInit ==
    /\ primary = NoTemplate /\ definitions = <<>> /\ symbols = <<>> /\ uses = {}
    /\ body = <<>> /\ reported = FALSE /\ ops = 0

Parsing == body = <<>> /\ ops < MaxTemplateOps
TemplateStep == Parsing /\ ops' = ops + 1 /\ UNCHANGED body
TemplateFails == reported' = TRUE /\ UNCHANGED <<primary, definitions, symbols, uses>>

\* LLVM function of a symbol: its name holds the arguments and "unmasked".
LLVMName(s) == [args |-> s.args, unmasked |-> s.unmasked]

CurrentDefinition == Len(definitions)
FunctionTemplate == definitions[CurrentDefinition]

\* FunctionTemplate::LookupInstantiation: the first one with the arguments, 0 if none.
LookupInstantiation(args) == SelectInSeq(FunctionTemplate, LAMBDA x : x.args = args)
InstantiationSymbol(args) == FunctionTemplate[LookupInstantiation(args)].symbol

\* A new symbol and its entry in the template's list.
Instantiate(args, kind, b) ==
    /\ symbols' = Append(symbols, [args |-> args, unmasked |-> primary.unmasked, body |-> b])
    /\ definitions' = [definitions EXCEPT ![CurrentDefinition] =
                          Append(@, [args |-> args, symbol |-> Len(symbols) + 1, kind |-> kind])]

-----------------------------------------------------------------------------
(***************************************************************************)
(* Operations                                                              *)
(***************************************************************************)

\* AddFunctionTemplateDeclaration; again for the same type changes nothing.
DeclareTemplate(storage, unmasked) ==
    /\ TemplateStep /\ ~primary.declared
    /\ primary' = [storage |-> storage, unmasked |-> unmasked, declared |-> TRUE]
    /\ UNCHANGED <<definitions, symbols, uses, reported>>

\* AddFunctionTemplateDefinition: a second definition takes the symbol over.
DefineTemplate ==
    /\ TemplateStep /\ primary.declared
    /\ definitions' = Append(definitions, <<>>)
    /\ UNCHANGED <<primary, symbols, uses, reported>>

\* getCandidateTemplateFunctions: a call finds the instantiation or adds it.
CallTemplate(args) ==
    /\ TemplateStep
    /\ IF definitions = <<>> THEN TemplateFails
       ELSE IF LookupInstantiation(args) # 0
       THEN /\ uses' = uses \cup {[args |-> args, symbol |-> InstantiationSymbol(args), definition |-> CurrentDefinition]}
            /\ UNCHANGED <<primary, definitions, symbols, reported>>
       ELSE /\ Instantiate(args, "implicit", PrimaryBody(CurrentDefinition))
            /\ uses' = uses \cup {[args |-> args, symbol |-> Len(symbols) + 1, definition |-> CurrentDefinition]}
            /\ UNCHANGED <<primary, reported>>

\* The storage class and "unmasked" may be left out and may not differ.
Inconsistent(storage, unmasked) ==
    \/ storage # "none" /\ storage # primary.storage
    \/ unmasked /\ ~primary.unmasked

\* AddFunctionTemplateInstantiation: no look at what is there already.
ExplicitInstantiation(args, storage, unmasked) ==
    /\ TemplateStep
    /\ IF definitions = <<>> \/ Inconsistent(storage, unmasked) THEN TemplateFails
       ELSE Instantiate(args, "explicit", PrimaryBody(CurrentDefinition)) /\ UNCHANGED <<primary, uses, reported>>

\* The instantiation has a function, and the same type as the specialization.
AlreadyDefined(args, unmasked) ==
    /\ LookupInstantiation(args) # 0
    /\ LET s == symbols[InstantiationSymbol(args)] IN s.unmasked = unmasked /\ s.body # NoBody

\* AddFunctionTemplateSpecializationDeclaration, and for a definition also
\* AddFunctionTemplateSpecializationDefinition: the function of the symbol is
\* replaced, whatever it was and whether or not the declaration was an error.
Specialize(args, storage, unmasked, defined) ==
    LET bad == Inconsistent(storage, unmasked) \/ AlreadyDefined(args, unmasked)
        known == LookupInstantiation(args) # 0
        b == IF defined THEN SpecialBody(ops) ELSE NoBody
    IN /\ TemplateStep
       /\ IF definitions = <<>> \/ (bad /\ ~known) THEN TemplateFails
          ELSE /\ reported' = (reported \/ bad)
               /\ IF known
                  THEN /\ symbols' = IF defined THEN [symbols EXCEPT ![InstantiationSymbol(args)].body = b] ELSE symbols
                       /\ UNCHANGED definitions
                  ELSE Instantiate(args, "specialization", b)
               /\ UNCHANGED <<primary, uses>>

\* The instantiations of all templates, in the order of their definitions.
Instantiations == UNION {{<<d, i>> : i \in DOMAIN definitions[d]} : d \in DOMAIN definitions}
Earlier(p, q) == p[1] < q[1] \/ (p[1] = q[1] /\ p[2] < q[2])
SymbolAt(p) == symbols[definitions[p[1]][p[2]].symbol]

\* An earlier instantiation gave the function of instantiation p its body.
HasBodyAlready(p) ==
    \E q \in Instantiations : /\ Earlier(q, p) /\ SymbolAt(q).body # NoBody
                         /\ LLVMName(SymbolAt(q)) = LLVMName(SymbolAt(p))

\* Mutant: a function that has a body is given another one.
GeneratedNotChecked(p) == SymbolAt(p).body = NoBody

\* FunctionTemplate::GenerateIR for instantiation p: no body, or a body for a
\* function that has one, is an error.
GenerateFails(p) == SymbolAt(p).body = NoBody \/ HasBodyAlready(p)

\* AST::GenerateIR, over the templates and their instantiations in order.
GenerateIR ==
    LET first == {p \in Instantiations : SymbolAt(p).body # NoBody /\ ~HasBodyAlready(p)}
        instanceOf(f) == CHOOSE p \in first : LLVMName(SymbolAt(p)) = f
    IN /\ body = <<>> /\ Instantiations # {}
       /\ body' = [f \in {LLVMName(SymbolAt(p)) : p \in first} |-> SymbolAt(instanceOf(f)).body]
       /\ reported' = (reported \/ \E p \in Instantiations : GenerateFails(p))
       /\ UNCHANGED <<primary, definitions, symbols, uses, ops>>

Storages == {"none", "static"}

Declares == \E st \in Storages, u \in BOOLEAN : DeclareTemplate(st, u)
Explicits == \E a \in TemplateArgs, st \in Storages, u \in BOOLEAN : ExplicitInstantiation(a, st, u)
Specializes == \E a \in TemplateArgs, st \in Storages, u, d \in BOOLEAN : Specialize(a, st, u, d)
TemplateCalls == \E a \in TemplateArgs : CallTemplate(a)

TemplateNext == Declares \/ DefineTemplate \/ TemplateCalls \/ Explicits \/ Specializes \/ GenerateIR

TemplateSpec == TemplateInit /\ [][TemplateNext]_templateVars

-----------------------------------------------------------------------------
(***************************************************************************)
(* Properties                                                              *)
(***************************************************************************)

TemplateTypeOK ==
    /\ definitions # <<>> => primary.declared
    /\ \A d \in DOMAIN definitions : \A i \in DOMAIN definitions[d] :
          definitions[d][i].args = symbols[definitions[d][i].symbol].args
    /\ \A f \in DOMAIN body : body[f] # NoBody

\* The LLVM function that call u runs has the code of its symbol: a specialization
\* for its arguments, or, when there is none, the template that the call saw.
RunsItsCode(u) ==
    LET s == symbols[u.symbol]
    IN /\ LLVMName(s) \in DOMAIN body
       /\ body[LLVMName(s)] = s.body
       /\ s.body[1] = "primary" =>
              /\ s.body = PrimaryBody(u.definition)
              /\ \A t \in ToSet(symbols) : t.args = u.args => t.body[1] # "special"

\* In a program that compiles, a call runs the specialization for its
\* arguments when there is one, and otherwise the template that the call saw,
\* however definitions, calls and specializations follow each other.
CallsRunTheirCode == ~reported /\ body # <<>> => \A u \in uses : RunsItsCode(u)

\* A specialization that is defined after the instance was used is an error.
NoSpecializationAfterUse ==
    ~reported => \A d \in DOMAIN definitions : \A i \in DOMAIN definitions[d] :
        definitions[d][i].kind = "implicit" => symbols[definitions[d][i].symbol].body[1] = "primary"
=============================================================================
