# TLA+ models of Murphy: the ClassAd evaluator and the gremlin controller

The repository holds two programs:

* **classads-1.0.10** (`src/classads-1.0.10/`) is the ClassAd expression language.
  It has records ("ads") of attribute expressions, lazy evaluation with three-valued
  logic (values, Undefined, Error, plus a hard failure signalled by returning
  `false`), and builtin functions. The repository contains only part of the
  library: attribute references (`attrrefs.cpp`), expression lists (`exprList.cpp`),
  function calls and the builtins (`fnCall.cpp`), the XML reader (`xmlSource.cpp`)
  and the lexer's character sources (`lexerSource.cpp`), with the headers
  `exprTree.h`, `sink.h` and `classad_stl.h`. `ClassAd` itself (`LookupInScope`,
  `EvaluateAttr`), `Value`, `Literal`, `Operation` and the parser are described by
  `spec.md` but are not under `src/`.
* **Murphy** (`src/murphy-1.0/`) is a fault injector built on Parrot. Its
  gremlin controller (`parrot/src/controller.cc`) decides, call by call, whether a
  system call of a traced process is made to fail. The decision comes from a
  configuration (name:percent:seed:constraint, where the constraint is a ClassAd
  expression evaluated over the call's context). Every injected failure is
  recorded to a log, and a recorded log can be replayed.
  `dttools/src/batch_job_work_queue.c` is a batch-job back end over a work queue.
  `MyString.h` and `HashTable.cc` are helpers.

How they interact: the controller's `doevil` builds a ClassAd of the call's
context and evaluates the configured constraint with the evaluator. So the
controller depends on the evaluator, and the evaluator does not depend on the
controller.

## Inventory

| Part | Source | State and operations | Hard behaviour |
|---|---|---|---|
| Attribute references | `attrrefs.cpp` | `EvalState` (`depth_remaining`, `curAd`, `rootAd`), `_Evaluate`, `FindExpr`, `_Flatten` | recursion budget, save/restore of `curAd`, list broadcast with fresh states, re-parenting |
| Expression lists | `exprList.cpp` | `_Evaluate`, iterator, `GetValue` | failure absorbed in `GetValue`, `PrevExpr` off by one |
| Function calls | `fnCall.cpp` | function table, `_Evaluate`, builtins | table initialisation overwrites registrations, `eval()` resets the budget, list comparisons answer by element order, conversion edge cases |
| XML reader | `xmlSource.cpp` | token stream, recursive descent | loops that never consume their token |
| Lexer sources | `lexerSource.cpp` | read/unread over file, stream, char*, string | read at EOF, unread after EOF |
| Gremlin controller (`GremlinController`, `GremlinReplay`) | `controller.cc` | config table, entry table, replay table, log fd, counters | replay keyed without pid, write loop that can spin, init with no file |
| Work queue back end | `batch_job_work_queue.c` | output table, static log file, submit, wait | outputs routed by task id, a log that cannot open, output files that cannot open |
| Sinks, STL, strings, hashes | `sink.h`, `classad_stl.h`, `MyString.h`, `HashTable.cc` | declarations, pure helpers | none that a model checker reaches |

## Modules

### ClassAdTree: the data the evaluator works on

A constant arena `Tree` maps integer node ids to node records:

* `lit`: a Literal;
* `ref`: an AttributeReference, with qualifier, name and absolute flag;
* `list`: an ExprList;
* `ad`: a ClassAd, with attributes and alternate scope;
* `fn`: a FunctionCall.

Values are small records. ClassAd and list values are pointers, meaning node
ids. A `blist` value is the ExprList a broadcast builds.

The module also defines `LookupInScope`, which walks the parentScope chain and
leaves `curAd` at the last ad visited. The walk takes the scope function as a
parameter, because evaluation can overwrite a parentScope. `RootOf` is
`SetRootScope`. The `ClassAd` and `EvalState` method bodies are not under
`src/`, so these operators are modelled from `spec.md` and the header.

### ClassAdEval: the evaluator as the code runs it

The evaluator is modelled as the depth-first walk of C++ calls that it is. It is
not a recursive operator, because the properties are about how calls share one
mutable `EvalState`.

* `stack` is the sequence of calls in progress. A `ref` frame is
  `AttributeReference::_Evaluate` with `FindExpr` inlined; an `fn` frame is
  `FunctionCall::_Evaluate` with the builtin it dispatches to.
* `states` holds the `EvalState`s alive on the C++ stack: the caller's, a
  broadcast's `tstate`, and the one `eval()` creates through
  `Evaluate(Value&)`. Each frame refers to one of them.
* A call returns by popping its frame and leaving `<<bool, Value>>` in `ret`.
  The caller's next action reads `ret`, so state the caller saved before the
  call is restored only when the caller resumes, as in the code.

| Action | Code |
|---|---|
| `RefFind` | `_Evaluate` saves `curAd`; `FindExpr` picks the root or `curAd`, fails an absolute reference with no root, or evaluates the qualifier |
| `RefQual` | `FindExpr` classifies the qualifier's value: fail, Undefined, Error, ad, list, or anything else (Error) |
| `RefLookup` | `LookupInScope`, the alternate scope when `!expr`, then the `_Evaluate` switch with the depth check and `depth_remaining--` |
| `RefRet` | `depth_remaining++`, `curAd` restored, `rval` returned |
| `RefBcast` / `RefBret` | the broadcast loop: a fresh `tstate` per element, then `SetParentScope(new ClassAd())` on the result |
| `FnStart` | unresolved name gives Error without evaluating the arguments; wrong arity gives Error |
| `FnIsType`, `FnIfCond`, `FnIfBranch` | `isundefined`/`iserror`, `ifThenElse` |
| `FnEvalArg`, `FnEvalRet` | `eval()`: print, parse, evaluate in a fresh `EvalState` |
| `Begin`, `Finish` | a client evaluating `attr` in `ad` and reading the answer |

A push beyond `MaxStack` frames is a crash (`status = "overflow"`).

### EvalSpec: what evaluation promises

`EvalSpec` gives the semantics of `spec.md` §3, §4.2 and §8 as a pure
`RECURSIVE` function `Den` of the unchanged tree:

* bare names use the alternate scope, and absolute or qualified names do not;
* a list element that is a scalar is substituted as is;
* each dereference spends the budget of its context;
* any hard failure is a hard failure of the whole.

The specification is an evaluator that accepts a query and eventually answers
`Answer(q)`. `ClassAdEval` instantiates it with the refinement mapping
`aStatus <- busy/idle`, `aQuery <- query`, `aResult <- last`. The property
`Refines` says:

* every answer the code gives is the spec's answer;
* every evaluation finishes. A crash leaves the abstract evaluator busy forever.

### MC_ClassAdEval: trees and scenarios

The main tree, `MCTree`, is a 60-node record tree. The comment at the top of
the module shows its source text. It was chosen so that one run reaches every
path of the evaluator:

* the cycle `A = B; B = A`;
* `K`, a chain of exactly `MaxDepth` dereferences, and `J`, one more;
* qualified, absolute and alternate-scope lookups;
* a broadcast over records;
* `eval()` of a string, an integer, an unparsable string and Undefined;
* an unresolved function whose argument would loop;
* `ifThenElse` on Undefined, on a record, on a failing condition and with a
  failing branch;
* `T = ifThenElse(isundefined(S.Z), 0, X)`, where `X` must be looked up in `R`
  and not in `S`. This is what depends on `curAd` being restored.

The module also defines `DivergenceTree`, five records on which the code and
`spec.md` part ways, for the violation run:

* `R = [L = {1, [X = 4]}; M = L.X]` broadcasts over a scalar element;
* `RA = [N = .Q]` has alternate scope `[Q = 5]`;
* `RP = [S = [C = [V = W]; W = 1]; L = {S}; M = L.C; Q = S.C.V]` re-parents `C`;
* `RC = [L = {[X = M]}; M = L.X]` reaches itself through a broadcast;
* `RE = [E = eval("E")]` reaches itself through `eval()`.

Every record has its own ids, so the scenarios share one run. Each of the six
queries breaks `Refines` on its own: the lookups by a wrong answer, the two
cycles by an evaluation that overflows the stack and never answers.
`Deterministic` (same query, same answer) and the `results` history it reads
(`Watched`) stay in the module. No run checks them now: the re-parenting they
caught also breaks `Refines`, because `EvalSpec` answers `Q` the same before and
after `M`.

### GremlinController: one run of Parrot under Murphy

The controller's state:

* `cfg` is `gremlin_config_table`;
* `entries` is `gremlin_table`, keyed by name, pid and childnum;
* `replay` is `gremlin_replay_table`, keyed by name and childnum;
* `log` is the lines written to the log, and `logfd` is the state of `gremlin_log_fd`;
* `replayFile` is `gremlin_replay_file`.

Each traced process `p` has a fixed `Program[p]` of controller calls, and `pc[p]`
counts the calls that have returned. `dec[p]` holds the answers `doevil` gave.
Parrot serves one call at a time, so each call is one action, and the processes
interleave freely.

| Action | Code |
|---|---|
| `ControllerInit` | `controller::init`: the `default:0` entry, the config file lines, the log file, then `read_log` if a replay file was given. It runs once, before any other call, as the lazy wrappers do (`controller_doevil` and `controller_setconfig`). A missing config file ends in `"crashed"` (`fclose(NULL)`). A log that cannot be opened leaves the fd at -1, which disables logging without an error. |
| `SetConfig(p)` | `setconfig` with `process_config_line`. A line that does not parse changes nothing. A new name gets a fresh entry. An existing name is updated in place. A percent outside 0..100 is ignored. |
| `DoEvil(p)` | `doevil` with `write_log_entry`, in order: find or create the entry; resolve the config (its own, cached, or `default`, not cached); decide; apply the constraint veto; write the log line; increment the counters. The decision comes from the replay cursor when replaying, otherwise from the percentage. If the decision is evil and `write()` keeps failing, the call never returns (`"spinning"`). |
| `DiskFull` | The environment: the disk under the log fills, and `write()` fails from then on. |

Abstractions:

* `rand_r` is a nondeterministic choice, so the seeds are left out.
* A constraint is a model value. `EvalConstraint` gives its outcome in a call's
  context: `"true"`, `"false"` or `"undef"`. Only `"false"` vetoes, because
  `EvaluateAttrBool` leaves `evalResult` at true otherwise.
* A config line is a parsed record or `BAD`.
* The entry's cached config pointer is a flag. The table's pointer for a name is
  replaced only in `init`, before any entry exists, so the cached object is
  always the table's object.

### GremlinReplay: record, then replay

`GremlinReplay` instantiates `GremlinController` twice.

* `Rec` is a recording run. It has a log file, no replay file, and the pids `RecPid`.
* `Rep` is a replay run of the same programs. It has new pids `RepPid`, and its
  `replayFile` is set, when the recording ends (`Switch`), to what the recording
  logged.

Each run interleaves the processes independently. `GremlinScenarios` holds the
programs, config files and constraints that both MC modules use.
`MCProgram` is the program the passing run replays. `MCRaceProgram` has p1
set a constraint on read while p2 reads, and `MCReadProgram` has both processes
read. In replay, `DoEvil` fails a call only when the replay entry's index equals
the invocation counter. The constraint in force at that moment can still veto
it. So two things can make a replay diverge: a different order of setconfig
calls across processes, and a childnum two processes share.

### ClassAdBuiltins: the list, string, conversion and math builtins

Every builtin is an operator from its argument list to a result. A result is
`Ok(v)`, `Fail` (the C++ function returned `false`, a hard evaluation failure)
or `Thrown` (a C++ exception). An argument is an outcome: a value record, or
the model value `FAIL` when evaluating it failed. A list value carries the
outcomes of its elements, because the builtins evaluate the elements one by
one (`ExprListIterator::NextValue`).

* `TestMember`/`MemberScan`, `Size`, `SumAvg`/`SumLoop`, `MinMax`/`BoundLoop`,
  `ListCompare`/`CompareLoop` translate the loops of `testMember`, `size`,
  `sumAvg`, `minMax` and `listCompare`. Each early return and `break` is kept,
  because those decide which element's outcome wins.
* `StrCat`, `ChangeCase`, `SubString`, `CompareString` (`CmpBy`, with
  byte or case-folded character codes), `ConvString`, `ConvBool`, `ConvInt`,
  `ConvReal`, `DoMath` and `Interval` translate the string, conversion and math
  builtins. Strings are sequences of one-character strings. `Code` gives a small
  alphabet its byte values. `Interval` uses `Quot` and `CRem`, C's truncating
  `/` and `%`, and prints with `%d` and `%02d` (`Dec`, `PrintD`, `Print02`).
* `Operate` (comparisons, `+`, `/`, `is`/`isnt`), `ToStringV`, `ToIntV` and
  `ToRealV` are modelled from `spec.md`, because `operators.cpp` and `value.cpp`
  are not in the repository. Reals are fractions `RealV(n, d)`.

### FunctionTable: the name to function table

The state is `table`, `initialized` (the function static), `errno` and
`loaded` (what the last library load returned).

* `Construct` is the constructor's first-time fill. It assigns every builtin,
  over what was registered under its name before.
* `Register` is `RegisterFunction`, which keeps a name already present.
* `RegisterSharedLibrary` is `RegisterSharedLibraryFunctions`. It abstracts
  `dlopen`, `dlsym("Init")` and `Init()` to their outcomes, and registers the
  table up to its first NULL function.
* `Bound` is the binding `MakeFunctionCall` gives a node: the table's entry at
  that moment, or NULL.

### MC_ClassAdBuiltins: a client of the table and the builtins

The harness composes the two modules.

1. Before its call, the client may `RegisterUser` (a name, a user function),
   `LoadLibrary` (one of six libraries: four failure modes and two tables) and
   `ConstructOther` (another `FunctionCall` is made, which fills the table).
2. `Call` makes the node, binds it and dispatches it as `FunctionCall::_Evaluate`
   does (`Dispatch`): a NULL binding gives Error, a user function answers its
   name, and a builtin runs its operator.
3. `Permute` evaluates the same node again on a reordered list, so `OrderFree`
   compares two states.

`Calls` lists every call the run makes. It covers each builtin with arguments
of the right and wrong types and arity, failing arguments, and lists of up to
two elements drawn from numbers, strings, booleans, Undefined, Error and
failing elements.

### XmlParser: the XML reader

`ClassAdXMLParser` (`xmlSource.cpp`) is a recursive-descent reader over the
tokens of an `XMLLexer`. The lexer is not in the repository, so a token is a
record:

* a tag has an id, a type (start, end, empty, invalid) and the attribute the
  parser reads (`n` of an attribute, `v` of a bool);
* a text token carries what it denotes, and whether `sscanf`/`strtod` read it
  as a number.

The variables are `toks` (the input), `pos` (the next token), `stack` and
`ret`. The three procedures that loop or call back into `ParseThing` keep a
frame on an explicit stack, innermost last:

* `"ad"` for `ParseClassAd(void)`, with `in_classad` and the ad so far;
* `"attr"` for `ParseAttribute`, with the name;
* `"list"` for `ParseList`, with the elements so far.

A call pushes a frame, and `Return(v)` pops it and leaves `v` in `ret` for the
caller's resume action. The procedures that neither loop nor recurse
(`ParseNumberOrString`, `ParseBool` and `ParseUndefinedOrError` as
`ParseScalarTag`, and the time and expression tags as `ParseTextTag`) are
operators that give the position and tree after them. `Leaf` is `ParseThing`'s
switch over them, and `CallLeaf` takes one of them as a single step.

| Action | Code |
|---|---|
| `AdOutside` | Outside a classad, every token is consumed. `<c>` opens the ad, and any other classad tag returns it (NULL). |
| `AdAttribute` | An invalid attribute tag returns NULL. A start tag goes to `ParseAttribute`: an empty name swallows the end tag and returns NULL, and a named one pushes an `"attr"` frame. |
| `AdOtherTag` | Another classad tag is consumed, and ends the ad if it is an end tag. A non-document tag is consumed and ends the ad. |
| `AdEnd` | `PeekToken` fails, and the ad built so far is returned. |
| `AdResume` | `classad->Insert(name, tree)`, or NULL for the whole ad when the tree is NULL. |
| `AttrCall`, `AttrResume` | `ParseThing`, then `SwallowEndTag(attribute)` and return. |
| `ListIter`, `ListResume` | One iteration of `ParseList`'s loop: `</l>` ends the list, another non-end tag is parsed and its subtree pushed (NULL included), and the end of input ends the loop. |

The code's loops consume nothing on some tokens: text, attribute end and empty
tags, or document-level tags inside an ad, and text or stray end tags inside a
list. On those tokens no action is enabled, because the real loop repeats the
same iteration forever. The model therefore shows a hang as a parse that
stutters without reaching `Done`.

`MC_XmlParser` writes documents with `Xml`, the unparser of `spec.md` §3
(modelled from the spec, because the unparser is not in the repository). A
document can be bare or wrapped in the `<?xml?>` prolog and `<classads>`. The
input is the whole document, any prefix of it (a truncated file), or, in
`SpecDamaged`, the document of a small ad with one stray token inserted
anywhere.

### LexerSource and PushbackReader: the lexer's character sources

`PushbackReader` is what the lexer needs from a source:

* `Read` gives the next character, or EOF;
* `Unread`, right after a `Read`, undoes it (nothing, after EOF);
* `AtEnd` is TRUE only with no character left, and TRUE right after a read gave
  EOF.

`LexerSource` models the four sources of `lexerSource.cpp`, picked by `kind`.
Each operation is split per source (`CharRead`, `FileRead`, `StreamRead`, and
the same for `Unread` and `AtEnd`), with the library state each source relies
on:

* the `FILE`'s position, EOF flag and one `ungetc` slot. EOF is sticky,
  `ungetc(EOF)` does nothing, and `ungetc` clears the flag.
* the `istream`'s position, `eofbit` and `failbit`. A `get` at the end sets
  both bits and leaves its argument unassigned, which the model shows as any
  byte in `Bytes`. `putback` clears `eofbit` and fails on a failed stream.
* the `char*`/`std::string` offset, which may start anywhere (`SetNewSource`).
  The end is reached at the terminating NUL.

`MC_LexerSource` maps the source's state to the reader's `rest`, and checks
`ImplementsReader == Reader!Spec`.

### ExprListIterator and ListCursor: walking an expression list

`ListCursor` is what the iterator promises a caller. The position moves between
the first element (0) and the place after the last (`Len`). `Next`, `Current`
and `Prev` answer the element they land on, or NULL. A `Value` call answers the
element's value, or false when there is no element, no depth budget, or the
evaluation fails.

`ExprListIterator` models `exprList.cpp` lines 295-491. It has one action per
public method: `Initialize`, `ToFirst`, `ToAfterLast`, `ToNth`, `NextExpr`,
`CurrentExpr`, `PrevExpr`, `NextValue`, `CurrentValue`, `PrevValue`,
`IsAtFirst` and `IsAfterLast`. A caller may call them in any order.

* `l` is the list, or NULL after the default constructor. `itr` is the vector
  iterator as an index, where `Len(l)` is `end()`.
* `ans` is what the last call answered, always a record `[ok, v]`.
* `NextMoves`, `CurrentMoves` and `PrevMoves` give each method's new index and
  returned pointer. `PrevExpr` does `itr++`, as the code does.
* `*itr` at or past `end()` is undefined behaviour. It reads any pointer of
  `Stray`, here an element or NULL. `MaxItr` bounds how far an index that has
  passed `end()` is followed.
* `GetValue` is a function of the tree and the caller's `depth_remaining`. It
  answers the element's `Eval` outcome. `ClassAdEval` models evaluation itself,
  so here an element just evaluates or fails. Saving and restoring `curAd` and
  the budget happens inside the one step, so it is not visible.
* The signature-returning `GetValue`/`*Value` variants (lines 431-477) have the
  same control and are not separate actions.

`MC_ExprListIterator` maps `l`, `itr` and `ans` to the cursor's variables and
checks `ImplementsCursor == Cursor!Spec`.

### BatchJobWorkQueue: the Work Queue batch back end

This module models `batch_job_work_queue.c`:

* `Submit`, for `batch_job_submit_work_queue`. It answers -1 when the command
  line cannot be allocated. Otherwise it submits the task and enters a named
  outfile in `outputTable` under the task id.
* `SubmitSimple`, for `batch_job_submit_simple_work_queue`.
* `Wait`, for `batch_job_wait_work_queue`, which proceeds as follows:
  * On its first call it opens the function-static logfile (`logOpen`). While
    the logfile cannot be opened (`logWritable` FALSE), it returns -1 and does
    nothing else.
  * It then picks `WORK_QUEUE_WAITFORTASK` for stoptime 0, or a finite timeout
    otherwise. With `WORK_QUEUE_WAITFORTASK` it blocks while tasks run, so the
    action is disabled.
  * For a finished task (`DeliverTask`), it takes the outfile out of
    `outputTable`, writes the task's output to it unless `fopen` fails
    (`Unwritable`), and answers the task id.
  * Otherwise it answers 0 when the queue is empty, else -1 (`NoTaskAnswer`).

The `work_queue` library is not in the repository, so it is modelled from its
contract:

* task ids are 1, 2, ... in submit order;
* a task is `queued` until a worker finishes it (`Complete`), and then
  `complete` until `work_queue_wait` hands it out;
* `work_queue_empty` means nothing is queued or complete.

The caller records what `submit` returned (`submitted`, `outOf`) and what
`wait` returned (`returned`).

Left out: a job's output is its id, and command lines, `info` times, the stdout
echo and the log lines are not modelled. `batch_job_remove_work_queue` only
returns 0.

## Runs

| Run | Config | Expect | What it shows |
|---|---|---|---|
| `eval_refines_spec` | `ClassAdEval.cfg` | pass | On `MCTree`, with `MaxDepth = 3` and `MaxStack = 12`, every one of the 31 queries, in any order, terminates and agrees with `EvalSpec` (`Refines`); `depth_remaining` stays in `0..MaxDepth` (`TypeOK`). |
| `eval_divergence` | `EvalDivergence.cfg` | violation | Six queries of `DivergenceTree` disagree with `EvalSpec` (`Refines`). TLC's trace shows the first: `.Q` is found in the root's alternate scope (attrrefs.cpp:441). The others: `{1, [X = 4]}.X` is `{error, 4}` where the spec says `{1, 4}` (attrrefs.cpp:400). After `L.C` is evaluated, `S.C.V` turns from 1 to Undefined, because the broadcast re-parented `C` (attrrefs.cpp:428). `M = L.X` with `L = {[X = M]}`, and `E = eval("E")`, recurse until the stack overflows, because every broadcast element (attrrefs.cpp:402) and every `eval()` (fnCall.cpp:2255) starts a fresh budget. `EvalSpec`'s `Den` gives broadcast elements and `eval()` a fresh context too, so it has no value for these two either. The code overflows the stack and never answers, which breaks `Terminates`, the liveness half of `Refines`. spec.md 4.2 says evaluation never recurses without bound. |
| `disk_full_hangs` | `DiskFull.cfg` | violation | After `write()` starts failing, the next injected failure spins in `write_log_entry`, and no traced call returns again (`AllCallsReturn`, controller.cc:394). |
| `replay_faithful` | `GremlinReplay.cfg` | pass | A recording by two processes, with setconfig ioctls between their calls (one with percent 150, one that does not parse), a config file with a bad line and a `default` override, and a disk that may fill; then a replay of its log with new pids, under every interleaving TLC enumerates. A stored percent is in 0..100 (`TypeOK`). The replay gives every process the answers it got in the recording (`ReplayFaithful`). The claim holds for this program only: its childnums are distinct, and each constraint is set by the process whose calls it governs. `replay_diverges` shows what happens otherwise. |
| `replay_diverges` | `ReplayDiverges.cfg` | violation | Two processes with childnum 1, as in the controller's test driver (`MCSharedChildNum`). p1 sets a constraint on read and then reads, while p2 reads twice (`MCRaceProgram`). TLC's trace: in the recording p2's first read fails before p1's setconfig; in the replay p1's setconfig runs first, and the re-evaluated constraint (controller.cc:496-532) vetoes the recorded failure. The shared replay cursor (controller.cc:452) breaks `ReplayFaithful` on its own, too. Binding `Program <- MCReadProgram` has no constraint and still fails. The race alone, with `ChildNum <- MCChildNum`, also fails. |
| `builtins_match_spec` | `ClassAdBuiltins.cfg` | pass | A client registers functions and shared libraries before and after the table is filled, then makes and evaluates one builtin call, dispatched through the table. `member`, `identicalmember`, `size`, `sum`, `avg`, `min`, `max` and `allcompare` give the same answer on a reordered list (`OrderFree`). `sum`/`avg`/`min`/`max` equal their fold definitions (`AggregatesMatchFold`). `strcmp`/`stricmp` follow (case-folded) byte order (`StrCmpMatchesSpec`). `substr` is perl's substr (`SubstrMatchesSpec`). `interval` of a negative time is minus its magnitude (`IntervalMatchesSpec`). A library load registers its table up to the first NULL, or sets the errno (`LibraryLoadReported`). |
| `any_compare_order` | `AnyCompareOrder.cfg` | violation | `anycompare("<", {undefined, 0}, 1)` is false, while `anycompare("<", {0, undefined}, 1)` is true (`OrderFree`). The loop stops at the first Undefined comparison (fnCall.cpp:1100). For anycompare, the false after the loop carries the comment "Nothing must have matched, since we would have already returned" (fnCall.cpp:1121-1122). An Undefined comparison returns earlier, with that same false, before any later element that matches is seen. |
| `xml_round_trip` | `XmlRoundTrip.cfg` | pass | Ads of up to two attributes, over all scalar kinds, lists of up to two and an ad and a list nested two deep, are written as XML (bare or in a file of ads). The whole document parses back to the ad (`RoundTrip`, `spec.md` §3). The document and every prefix of it parse to an end (`Terminates`). |
| `xml_parse_damaged` | `DamagedXml.cfg` | violation | One stray token in the XML of `[a = 7]` or `[b = {7}]`. TLC's trace has text right after `<c>`: `ParseClassAd` peeks it forever (xmlSource.cpp:133) and never returns (`ParseYieldsTree`). The code's comments say it skips bad input to recover. |
| `iterator_cursor` | `IteratorCursor.cfg` | violation | The iterator is not the cursor it promises to be (`ImplementsCursor`). TLC's trace is two steps long: `CurrentValue` on an element whose evaluation fails answers true, because `GetValue` drops `Evaluate`'s result (exprList.cpp:401; `spec.md` §7 says a hard failure is never absorbed). With `GetValue` corrected, the next trace is `ToAfterLast` then `PrevExpr`, which moves forward past `end()` (exprList.cpp:375). |
| `work_queue` | `WorkQueue.cfg` | pass | A caller submits up to three jobs, with no outfile or with one of two outfiles (one cannot be opened), and keeps calling `wait` while workers finish the jobs in any order. A returned job's output is in the file its submit named (`OutputDelivered`). With a logfile that opens, every job comes back (`EveryJobReturned`). |
| `lexer_sources` | `LexerSources.cfg` | violation | The istream source returns an uninitialised character for the read that hits the end (lexerSource.cpp:116), where a reader gives EOF (`ImplementsReader`). The char/string sources, started at offset 1, step back before their start when the lexer un-reads an EOF (lines 190, 257). The `FILE` source alone refines the reader. |

Mutants of the passing runs check that its properties can fail:

* `RefLookupDepthOffByOne` writes the depth check as `< 0`, and `TypeOK` fails;
* `RefRetKeepsCurAd` drops the restore of `curAd`, and `Refines` fails on `T`;
* `AssignNoRangeCheck` stores the percent without its 0..100 check, and `TypeOK`
  fails;
* `ReplayHitAfterCount` compares the replay index with the counter after its
  increment, and `ReplayFaithful` fails;
* `RegisterFunctionsSkipFirst` skips the first pair of a library table, and
  `LibraryLoadReported` fails;
* `MemberScanNoBreak` makes `member` keep scanning after a match, so a later
  Error wins, and `OrderFree` fails;
* `SumLoopSkipFirstLen` counts one element fewer for `avg`, and
  `AggregatesMatchFold` fails;
* `CompareStringNameSwapped` folds case for `strcmp` instead of `stricmp`, and
  `StrCmpMatchesSpec` fails;
* `SubStringNoZeroLen` treats an explicit length 0 as "to the end", and
  `SubstrMatchesSpec` fails;
* `QuotFloor` divides by rounding down instead of C's truncation, and
  `IntervalMatchesSpec` fails;
* `ParseScalarTagUpperOnly` reads only `v="T"` as true, and `RoundTrip` fails;
* `ParseTextTagNoConsume` peeks at the text of a time or `<e>` tag without
  consuming it, and `Terminates` fails (the enclosing loop spins on the text);
* `SubmitNoOutfile` drops the `itable_insert` of the outfile, and
  `OutputDelivered` fails;
* `DeliverTaskNoId` leaves `taskid` at -1 for a task it took, and
  `EveryJobReturned` fails.

### Bounds

* `MaxDepth = 3` stands for `MAX_CLASSAD_RECURSION`. Three is enough to have a
  chain that exactly fits (`K`), one that does not (`J`) and a cycle cut off
  by the budget.
* `MaxStack` is the point at which the C++ stack overflows. In the passing run,
  12 frames is more than any terminating evaluation of `MCTree` needs, so
  reaching it would show up as a deadlock. In `eval_divergence` it is 30. A
  cycle that the budget does not cut off grows the stack until it overflows.
  The evaluation then stays busy, and that breaks `Refines`.
* `Watched` limits the `results` history to the queries a run compares. The
  passing run watches none, because the refinement already fixes every answer.

* Gremlin runs use two processes with two to five calls each, and two gremlins.
  That is the smallest setting where calls of different processes interleave,
  a config change falls between two calls of another process, and one gremlin
  is both configured and left to `default`. Percent 50 lets both answers
  happen, and 100 forces one.

* Builtin runs use lists of up to 2 elements (`MaxList`) and strings of up to
  3 characters (`MaxStr`). Every order dependence in the scans is between two
  elements: the first one that decides the result, and a later one that would
  decide it differently. Two elements in both orders therefore show each one.
  With `MaxList = 3` the run has 3.9 million states and takes minutes per
  mutant, and finds nothing new. Three characters, with offsets and lengths in
  -4..4, reach every branch of `substr`: negative, zero, inside, at the end and
  past the end. `Seconds` holds each field of `interval` at its edge, on both
  sides of zero, and the ends of a 32-bit int. TLC's integers cannot hold
  `INT_MIN` itself.

* XML documents are those of ads with at most two attributes. Values go one
  list or ad deep, plus a list and an ad nested two deep. Every procedure of
  the reader runs, each of its `SwallowEndTag` cases happens, and every
  nesting of frames (ad in attribute in ad, list in list, ad in list) occurs.
  Cutting every document at every position gives each action an input that
  ends inside it. `Ints = {0, 1}` stands for what an unset `int` may hold. In
  the damaged run `ListBound` (`MaxElems = 3`) cuts off a list that pushes NULL
  without end.
* Lexer texts hold up to two characters and start at offset 0 or 1. Two
  characters are enough to read one, read the last, hit the end and un-read on
  each side of the end.

* The iterator runs over `{E1, E2}` and `{E2}`, where `E1` evaluates and `E2`
  fails. Budgets are 0 or 1, `ToNth` takes `-1..2`, and `MaxItr = 3` is one
  past the end of the longer list. Two elements are enough to step between
  elements, reach `end()` and step past it.
* The work queue runs with `MaxTasks = 3` and two files, one of which cannot
  be opened. Three tasks can finish in an order other than their submit
  order. They can name the same file, a different one, or none. `logWritable`
  takes both values.

### Fairness

Evaluation is single-threaded and blocking (`spec.md` §5). Once a query has
begun, the evaluator keeps taking steps until it returns. That is weak fairness
of `Step \/ Finish`. The client (`Begin`) is not fair, because it may stop
asking. In `EvalSpec` the same assumption is stated as
`aStatus = "busy" ~> aStatus = "idle"`, which is equivalent to weak fairness of
`Finish`, since `Finish` is the only way out of `busy`.

In `GremlinController`, Parrot serves every process with a pending call, so each
process's calls are weakly fair, and so is `init`. `DiskFull` is not fair, because
the disk may never fill. The gremlin runs check deadlock off, because a run
really stops when every program has ended. `AllCallsReturn` is what catches a
run that stops early.

The XML reader is a single call that runs to its end, so `Next` is weakly
fair. Deadlock is not checked, because a parse ends with an empty stack.
`Terminates` and `ParseYieldsTree` are what fail when it does not. The lexer
run checks a safety refinement only. Its lexer may stop reading at any point,
so deadlock is not checked.

In `BatchJobWorkQueue` the caller keeps calling `wait`, so `Wait` is weakly
fair. Workers finish what they are given, so `Complete` is weakly fair too.
The library does not promise that a task ends. `EveryJobReturned` therefore
holds only under that assumption, and only for a logfile that opens. Deadlock
is checked: `wait` with a timeout is always possible. The iterator run checks a
safety refinement, with no fairness.

The builtin runs check only safety, so they assume no fairness. Deadlock is
not checked, because the client's run ends after its call.

## Not modelled, and why

* The copy semantics of broadcast elements (`Copy()`, `delete attrRef`). The
  model has no identity for copies, so it cannot see the use-after-free at
  attrrefs.cpp:406. This is listed as a hazard.
* `Operation` (`operators.cpp` is not in the repository). It is modelled from
  `spec.md` only for the operators the builtins call.
* The time builtins (`time`, `currenttime`, `splittime`, `formattime`,
  `getField`, `absTime`/`relTime`), which read the clock and format with
  `strftime`. The regular-expression builtins, which are libc or PCRE.
  `random`, which is `rand()` output.
* `int()` and `real()` of strings, booleans and times. The conversion routines
  are not in the repository, and `spec.md` does not define them.
* `eval()` of a record or list value, which prints and re-parses a whole record.
  Its action is disabled for such arguments, and no tree in the model produces
  one.
* `_Flatten` (attrrefs.cpp, exprList.cpp, fnCall.cpp) and the
  signature-returning `_Evaluate`. Flattening builds new trees out of
  partially evaluated ones. It relies on `Operation::Flatten` and
  `ClassAd::Flatten`, which are not in the repository, and on copies whose
  identity the models do not keep. `ExprList`'s `CopyFrom`, `SameAs`, `Clear`
  and its insert/erase helpers are left out for the same reason: they copy
  and compare trees.
* The `work_queue` library itself (workers, transfers, statistics) and any
  caller of the batch-job interface. Neither is in the repository, so both are
  modelled from the library's contract. The timeout `MAX(0, stoptime -
  time(0))` is a `time_t` difference stored in an `int`. Its range lies beyond
  TLC's integers, so the model takes the two cases the code distinguishes:
  wait for a task, or a finite timeout.
* `MyString.h`, `HashTable.cc`, `sink.h` and `classad_stl.h` hold string
  buffers, a hash table, output formatting and STL typedefs. No module here
  uses their state, and they have no state machine of their own.
* The controller's seeds and `rand_r`, the ClassAd context it builds for the
  constraint, the log's text format, `suspend_and_gdb`, and debug output.
  A missing config file is modelled (the crash), and so is a log file that
  cannot be opened (init tests the name pointer, controller.cc:610, and the
  recording then logs nothing). Neither has a run of its own, because any test
  with a missing or unwritable file shows it at once.
* A second `controller` object, which only the standalone driver creates. Its
  `init` returns early because `already_initialized` is a function static, so
  it has no `default` entry. This is listed as a hazard.

* The `XMLLexer` (tokenising, entity decoding) is not in the repository. Its
  tokens are modelled as records. `sscanf`, `strtod`, `convert_escapes` and
  `ClassAdParser::ParseExpression` are abstracted to what they yield for a
  text: a number, "unreadable" (`JUNK`), or a bad escape (`BADESC`).
* `ParseClassAd(const string&, ClassAd&, int&)` is a stub that returns false.
  The `Parse` entry points are modelled as a parse from the first token.
* A NUL byte inside a `std::string` source ends it. The texts in the model hold
  none.

## What remains

Every component with state is modelled, apart from the tree-copying parts
listed above. The run budget (12) is used up. Where more would pay:

1. `_Flatten` and the signature path, if `Operation` is ever modelled beyond
   what the builtins need.
2. Larger instances of the evaluator (`MaxDepth = 4`, more broadcast levels)
   and of the gremlin runs (three processes). Both fit in the 5-minute limit
   only with fewer queries per run.
