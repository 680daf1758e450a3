---------------------------- MODULE ModuleSymbols ----------------------------
(***************************************************************************)
(* Variables of a module: the scopes of the symbol table (sym.cpp), whose  *)
(* maps are used again, and the global variables (AddGlobalVariable in     *)
(* module.cpp), which may be declared more than once.  A type is a name    *)
(* and whether it is const; values of initializers are opaque.             *)
(***************************************************************************)
EXTENDS Integers, Sequences, SequencesExt

CONSTANTS
    Names,          \* names of variables
    GlobalTypes,    \* types of global variables: name and constness
    Inits,          \* values of initializers that are constants
    MaxScopes,      \* bound: scopes open at a time
    MaxSymbols      \* bound: symbols made

VARIABLES
    scopes,         \* variables: the maps of the open scopes, outermost first
    maps,           \* maps[m]: from names to symbols
    freeMaps,       \* freeSymbolMaps
    symbol,         \* symbol[s]: name, type, storage class, constant value
    llvmGlobals,    \* LLVM global variables by name: initializer and linkage
    functionNames,  \* names of functions
    symbolErrors,   \* whether an error was reported
    lexical,        \* history: what each open scope declares
    definitionsOf,  \* history: definitions of each global variable, none, one or more
    typesOf,        \* history: types that each global variable was declared with
    storagesOf      \* history: storage classes that it was declared with

symbolVars == <<scopes, maps, freeMaps, symbol, llvmGlobals, functionNames, symbolErrors, lexical,
                definitionsOf, typesOf, storagesOf>>

NoInit == "none"
ZeroInit == "zero"
Empty == <<>>

\* The map with an entry for one more name.
Added(map, n, entry) == [x \in DOMAIN map \cup {n} |-> IF x = n THEN entry ELSE map[x]]

SymbolsInit ==
    /\ scopes = <<1>> /\ maps = <<Empty>> /\ freeMaps = <<>> /\ symbol = <<>> /\ llvmGlobals = Empty
    /\ functionNames = {} /\ symbolErrors = FALSE
    /\ lexical = <<Empty>> /\ definitionsOf = [n \in Names |-> 0]
    /\ typesOf = [n \in Names |-> {}] /\ storagesOf = [n \in Names |-> {}]

-----------------------------------------------------------------------------
(***************************************************************************)
(* Scopes                                                                  *)
(***************************************************************************)

\* Mutant: a map is used again with what it held.
ReusedKept(m) == maps

ReusedMap(m) == [maps EXCEPT ![m] = Empty]

\* PushScope: the map that was freed last, or a new one.
PushScope ==
    /\ Len(scopes) < MaxScopes
    /\ IF freeMaps # <<>>
       THEN /\ scopes' = Append(scopes, Last(freeMaps))
            /\ freeMaps' = Front(freeMaps)
            /\ maps' = ReusedMap(Last(freeMaps))
       ELSE /\ scopes' = Append(scopes, Len(maps) + 1)
            /\ maps' = Append(maps, Empty)
            /\ UNCHANGED freeMaps
    /\ lexical' = Append(lexical, Empty)
    /\ UNCHANGED <<symbol, llvmGlobals, functionNames, symbolErrors, definitionsOf, typesOf, storagesOf>>

\* PopScope; the parser closes the scopes that it opened.
PopScope ==
    /\ Len(scopes) > 1
    /\ freeMaps' = Append(freeMaps, Last(scopes))
    /\ scopes' = Front(scopes)
    /\ lexical' = Front(lexical)
    /\ UNCHANGED <<maps, symbol, llvmGlobals, functionNames, symbolErrors, definitionsOf, typesOf, storagesOf>>

\* PopInnerScopes, after an error in parsing.
PopInnerScopes ==
    /\ Len(scopes) > 1 /\ symbolErrors
    /\ freeMaps' = freeMaps \o Reverse(Tail(scopes))
    /\ scopes' = <<scopes[1]>>
    /\ lexical' = <<lexical[1]>>
    /\ UNCHANGED <<maps, symbol, llvmGlobals, functionNames, symbolErrors, definitionsOf, typesOf, storagesOf>>

\* LookupVariable: from the innermost scope outwards; 0 if there is none.
LookupVariable(n) ==
    LET i == SelectLastInSeq(scopes, LAMBDA m : n \in DOMAIN maps[m])
    IN IF i = 0 THEN 0 ELSE maps[scopes[i]][n]

\* A symbol in the innermost map.
NewSymbol(s) ==
    /\ Len(symbol) < MaxSymbols
    /\ symbol' = Append(symbol, s)
    /\ maps' = [maps EXCEPT ![Last(scopes)] = Added(@, s.name, Len(symbol) + 1)]
    /\ lexical' = [lexical EXCEPT ![Len(lexical)] = Added(@, s.name, Len(symbol) + 1)]
    /\ UNCHANGED <<scopes, freeMaps>>

\* AddVariable for a local variable; one of the same scope is an error.
AddLocal(n) ==
    /\ Len(scopes) > 1
    /\ IF n \in DOMAIN maps[Last(scopes)]
       THEN symbolErrors' = TRUE /\ UNCHANGED <<scopes, maps, freeMaps, symbol, lexical>>
       ELSE NewSymbol([name |-> n, type |-> "int", const |-> FALSE, storage |-> "none", value |-> NoInit])
            /\ UNCHANGED symbolErrors
    /\ UNCHANGED <<llvmGlobals, functionNames, definitionsOf, typesOf, storagesOf>>

-----------------------------------------------------------------------------
(***************************************************************************)
(* Globals                                                                 *)
(***************************************************************************)

\* AddFunctionDeclaration, as far as names go.
AddFunctionName(n) ==
    /\ Len(scopes) = 1 /\ n \notin functionNames
    /\ IF LookupVariable(n) # 0 THEN symbolErrors' = TRUE /\ UNCHANGED functionNames
       ELSE functionNames' = functionNames \cup {n} /\ UNCHANGED symbolErrors
    /\ UNCHANGED <<scopes, maps, freeMaps, symbol, llvmGlobals, lexical, definitionsOf, typesOf, storagesOf>>

GlobalError ==
    symbolErrors' = TRUE
        /\ UNCHANGED <<scopes, maps, freeMaps, symbol, llvmGlobals, functionNames, lexical,
                      definitionsOf, typesOf, storagesOf>>

\* llvmInitializer: nothing for extern variables, zero by default.
Initializer(storage, init) ==
    CASE storage = "extern" -> NoInit
      [] storage # "extern" /\ init = NoInit -> ZeroInit
      [] OTHER -> init

\* constValue: the initializer of a const variable.
ConstValue(const, storage, init) == IF const /\ storage # "extern" THEN init ELSE NoInit

Conflicts(s, type, const, storage) ==
    \/ s.type # type \/ s.const # const
    \/ s.storage # "extern" /\ s.storage # storage

Recorded(n, type, const, storage) ==
    /\ definitionsOf' = [definitionsOf EXCEPT ![n] = IF storage = "extern" \/ @ = 2 THEN @ ELSE @ + 1]
    /\ typesOf' = [typesOf EXCEPT ![n] = @ \cup {<<type, const>>}]
    /\ storagesOf' = [storagesOf EXCEPT ![n] = @ \cup {storage}]

\* AddGlobalVariable for a name that is declared already.  The symbol keeps
\* its storage class and position.
RedeclareGlobal(n, type, const, storage, init) ==
    LET s == LookupVariable(n)
        gv == llvmGlobals[n]
    IN /\ s # 0
       /\ IF Conflicts(symbol[s], type, const, storage) THEN GlobalError
          ELSE IF gv.init # NoInit /\ symbol[s].storage # "extern" THEN GlobalError
          ELSE /\ llvmGlobals' = [llvmGlobals EXCEPT ![n].init =
                                     IF @ = NoInit THEN Initializer(storage, init) ELSE @]
               /\ symbol' = [symbol EXCEPT ![s].value = ConstValue(const, storage, init)]
               /\ symbolErrors' = (symbolErrors \/ (storage = "extern" /\ init # NoInit))
               /\ Recorded(n, type, const, storage)
               /\ UNCHANGED <<scopes, maps, freeMaps, functionNames, lexical>>

NewGlobal(n, type, const, storage, init) ==
    /\ LookupVariable(n) = 0
    /\ NewSymbol([name |-> n, type |-> type, const |-> const, storage |-> storage,
                  value |-> ConstValue(const, storage, init)])
    /\ llvmGlobals' = Added(llvmGlobals, n, [init |-> Initializer(storage, init),
                                             linkage |-> IF storage = "static" THEN "internal" ELSE "external"])
    /\ symbolErrors' = (symbolErrors \/ (storage = "extern" /\ init # NoInit))
    /\ Recorded(n, type, const, storage)
    /\ UNCHANGED functionNames

AddGlobalVariable(n, type, const, storage, init) ==
    /\ Len(scopes) = 1
    /\ IF n \in functionNames THEN GlobalError
       ELSE RedeclareGlobal(n, type, const, storage, init) \/ NewGlobal(n, type, const, storage, init)

Storage == {"none", "extern", "static"}

AddGlobals == \E n \in Names, t \in GlobalTypes, s \in Storage, i \in Inits \cup {NoInit} :
                  AddGlobalVariable(n, t.name, t.const, s, i)
AddLocals == \E n \in Names : AddLocal(n)
AddFunctionNames == \E n \in Names : AddFunctionName(n)

SymbolsNext == PushScope \/ PopScope \/ PopInnerScopes \/ AddLocals \/ AddGlobals \/ AddFunctionNames

SymbolsSpec == SymbolsInit /\ [][SymbolsNext]_symbolVars

-----------------------------------------------------------------------------
(***************************************************************************)
(* Properties                                                              *)
(***************************************************************************)

SymbolsTypeOK ==
    /\ DOMAIN llvmGlobals \subseteq Names /\ Len(scopes) = Len(lexical)
    /\ \A n \in DOMAIN llvmGlobals : llvmGlobals[n].init \in Inits \cup {NoInit, ZeroInit}
    /\ IsInjective(scopes \o freeMaps)

\* A name means what the innermost scope that declares it says, although the
\* maps of closed scopes are used again.
LookupsLexical ==
    \A n \in Names :
        LET i == SelectLastInSeq(lexical, LAMBDA e : n \in DOMAIN e)
        IN LookupVariable(n) = IF i = 0 THEN 0 ELSE lexical[i][n]

\* In a module without errors the declarations of a global variable agree
\* with each other and with the LLVM variable that the code uses.  A name is a
\* variable or a function, and every declaration has the type of the symbol.
\* The LLVM variable has an initializer exactly if a declaration defines it,
\* and the linkage is internal exactly if every declaration is static.  Unless
\* the first declaration is extern, all have one storage class and only one
\* defines the variable.  The value that stands for a const variable with one
\* definition is its initializer.  (After extern the code accepts static, with
\* external linkage, and further definitions, module.cpp:773-805.)
GlobalsConsistent ==
    ~symbolErrors =>
        /\ functionNames \cap DOMAIN llvmGlobals = {}
        /\ \A n \in DOMAIN llvmGlobals :
              LET s == symbol[lexical[1][n]]
                  gv == llvmGlobals[n]
              IN /\ typesOf[n] = {<<s.type, s.const>>}
                 /\ definitionsOf[n] > 0 <=> gv.init # NoInit
                 /\ gv.linkage = "internal" <=> storagesOf[n] = {"static"}
                 /\ s.storage # "extern" => storagesOf[n] = {s.storage} /\ definitionsOf[n] = 1
                 /\ definitionsOf[n] <= 1 /\ s.value # NoInit => s.value = gv.init

\* The value that the compiler puts in place of a const variable is the one
\* that other modules and the linker see in memory.  It need not be after two
\* definitions that follow an extern declaration.
ConstantsAgree ==
    ~symbolErrors =>
        \A n \in DOMAIN llvmGlobals :
            symbol[lexical[1][n]].value # NoInit => symbol[lexical[1][n]].value = llvmGlobals[n].init

\* A name means the same to every user of the symbol table and of the module.
NamesConsistent == LookupsLexical /\ GlobalsConsistent
=============================================================================
