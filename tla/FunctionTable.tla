---------------------------- MODULE FunctionTable ----------------------------
(***************************************************************************)
(* The process-wide name -> function table of FunctionCall (fnCall.cpp).   *)
(*                                                                         *)
(* The table is a function-static map.  The first FunctionCall constructed *)
(* fills it with the builtins, assigning functionTable[name] = fn; later   *)
(* registrations (RegisterFunction, RegisterFunctions, and                 *)
(* RegisterSharedLibraryFunctions through dlopen and an Init entry point)  *)
(* add a name only when it is absent.  MakeFunctionCall constructs the     *)
(* node, which runs that initialisation, and binds the node to the         *)
(* function the table holds for the name at that moment, or NULL.         *)
(*                                                                         *)
(* A function is a name of the builtin C++ function (isType, testMember,   *)
(* ...) or a user function, a model value.  A shared library is a record   *)
(* of what dlopen, dlsym("Init") and Init() give: its table is a sequence  *)
(* of [name, fn] pairs, read up to the first fn that is NULLFN.            *)
(***************************************************************************)
EXTENDS Sequences, TLC

CONSTANTS NULLFN,      \* a NULL function pointer
          HasRegex     \* built with USE_POSIX_REGEX or USE_PCRE

VARIABLES table,       \* the function table, a function from its names
          initialized, \* FunctionCall::initialized
          errno,       \* CondorErrno
          loaded       \* the last RegisterSharedLibraryFunctions call and
                       \* what it returned: the library table, NULLFN before one

ftVars == <<table, initialized, errno, loaded>>

\* The builtins the constructor loads, name by name.
BuiltinTable ==
    [n \in {"isundefined", "iserror", "isstring", "isinteger", "isreal",
            "islist", "isclassad", "isboolean", "isabstime", "isreltime"}
         |-> "isType"]
    @@ ("member" :> "testMember") @@ ("identicalmember" :> "testMember")
    @@ ("size" :> "size") @@ ("sum" :> "sumAvg") @@ ("avg" :> "sumAvg")
    @@ ("min" :> "minMax") @@ ("max" :> "minMax")
    @@ ("anycompare" :> "listCompare") @@ ("allcompare" :> "listCompare")
    @@ ("time" :> "epochTime") @@ ("currenttime" :> "currentTime")
    @@ ("timezoneoffset" :> "timeZoneOffset") @@ ("daytime" :> "dayTime")
    @@ [n \in {"getyear", "getmonth", "getdayofyear", "getdayofmonth",
               "getdayofweek", "getdays", "gethours", "getminutes",
               "getseconds"} |-> "getField"]
    @@ ("splittime" :> "splitTime") @@ ("formattime" :> "formatTime")
    @@ ("strcat" :> "strCat") @@ ("toupper" :> "changeCase")
    @@ ("tolower" :> "changeCase") @@ ("substr" :> "subString")
    @@ ("strcmp" :> "compareString") @@ ("stricmp" :> "compareString")
    @@ (IF HasRegex
        THEN ("regexp" :> "matchPattern") @@ ("regexpmember" :> "matchPatternMember")
             @@ ("regexps" :> "substPattern")
        ELSE <<>>)
    @@ ("int" :> "convInt") @@ ("real" :> "convReal")
    @@ ("string" :> "convString") @@ ("bool" :> "convBool")
    @@ ("absTime" :> "convTime") @@ ("relTime" :> "convTime")
    @@ [n \in {"floor", "ceil", "ceiling", "round"} |-> "doMath"]
    @@ ("random" :> "random") @@ ("ifThenElse" :> "ifThenElse")
    @@ ("interval" :> "interval") @@ ("eval" :> "eval")

\* The table once the constructor has run: the first construction assigns
\* every builtin, over whatever was registered under its name before.
CtorTable == IF initialized THEN table ELSE BuiltinTable @@ table

\* RegisterFunction: a name already present is left as it is.
RegisterFunction(t, name, fn) ==
    IF name \in DOMAIN t THEN t ELSE t @@ (name :> fn)

\* Variant: the pointer advanced before the first pair is registered.
RECURSIVE RegisterFunctionsSkipFirst(_, _)
RegisterFunctionsSkipFirst(t, functions) ==
    IF functions = <<>> \/ Head(functions).fn = NULLFN THEN t
    ELSE IF Tail(functions) = <<>> \/ Head(Tail(functions)).fn = NULLFN THEN t
    ELSE RegisterFunctionsSkipFirst(RegisterFunction(t, Head(Tail(functions)).name,
                                                     Head(Tail(functions)).fn),
                                    Tail(functions))

\* RegisterFunctions: every pair up to the first NULL function.
RECURSIVE RegisterFunctions(_, _)
RegisterFunctions(t, functions) ==
    IF functions = <<>> \/ Head(functions).fn = NULLFN THEN t
    ELSE RegisterFunctions(RegisterFunction(t, Head(functions).name,
                                            Head(functions).fn),
                           Tail(functions))

\* The binding MakeFunctionCall gives a node named name.
Bound(t, name) == IF name \in DOMAIN t THEN t[name] ELSE NULLFN

-----------------------------------------------------------------------------
FTInit == /\ table = <<>>
          /\ initialized = FALSE
          /\ errno = "none"
          /\ loaded = [functions |-> NULLFN, success |-> FALSE]

\* A client calls FunctionCall::RegisterFunction.
Register(name, fn) ==
    /\ table' = RegisterFunction(table, name, fn)
    /\ UNCHANGED <<initialized, errno, loaded>>

\* A client calls RegisterSharedLibraryFunctions(path) for a library lib:
\* no path, dlopen fails, no Init symbol, Init returns NULL, or a table.
RegisterSharedLibrary(lib) ==
    LET success == lib.path /\ lib.opens /\ lib.hasInit /\ lib.functions # NULLFN
    IN  /\ table' = IF success THEN RegisterFunctions(table, lib.functions)
                    ELSE table
        /\ errno' = IF success THEN errno ELSE "ERR_CANT_LOAD_DYNAMIC_LIBRARY"
        /\ loaded' = [functions |-> lib.functions, success |-> success]
        /\ UNCHANGED initialized

\* The constructor part of MakeFunctionCall (new FunctionCall).
Construct ==
    /\ table' = CtorTable
    /\ initialized' = TRUE
    /\ UNCHANGED <<errno, loaded>>
====
