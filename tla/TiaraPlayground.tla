--------------------------- MODULE TiaraPlayground ---------------------------
(***************************************************************************)
(* web/src/playground/Playground.tsx: the editors, compiler, assembler,    *)
(* verifier and interpreter behind the playground's buttons.  An action is *)
(* one callback of the component: a click, an edit, or a tick of the       *)
(* interval that runs while `running` is set.                              *)
(***************************************************************************)
EXTENDS TiaraVM, TiaraCC, TiaraPresets

CONSTANTS Sources,       \* C sources the user may write, [tokens, fn]: the text and
                         \* the function it writes down (NoFunc: no matter which)
          HandWritten,   \* assembly sources the user may write
          Agendas,       \* bound: what the user may click, click by click
          maxSteps,      \* step limit of the interpreter (2,000,000)
          MAX_LOOP_NEST, MAX_LENGTH

V == INSTANCE TiaraVerifier

VARIABLES preset,        \* number of the preset
          asmSrc, cSrc,  \* contents of the editors: lines; a member of Sources
          args,          \* parseArgs(argStr)
          loaded,        \* program, vmRef and snap are not null
          report, error, finalResult,
          running,
          snapHalted,    \* snap.halted, what the buttons look at
          steps,         \* vm.steps
          out,           \* history: the result of the last compilation
          from,          \* history: what asmSrc was before somebody edited it
          origin,        \* history: what the loaded program and memory are from
          agenda, click  \* clicks to come; the last one

pgVars == <<vmVars, preset, asmSrc, cSrc, args, loaded, report, error, finalResult,
            running, snapHalted, steps, out, from, origin, agenda, click>>

Null == <<>>
SourceOf(f) == [tokens |-> Source(f), fn |-> f]   \* a function as text
Clicks == {"preset", "editAsm", "editC", "editArgs", "compile", "assemble", "reset", "step", "run"}

Program(asm) == [a \in 0 .. Len(asm.words) - 1 |-> decodeWord(asm.words[a + 1])]
Verdict(p, mf) == IF V!Accepts(p, mf) THEN "pass" ELSE "reject"

Clicked(name) ==
    /\ agenda # <<>> /\ name \in Head(agenda)
    /\ agenda' = Tail(agenda) /\ click' = name
NoClick == UNCHANGED <<agenda, click>>
editors == <<preset, asmSrc, cSrc, args, out, from>>
-----------------------------------------------------------------------------
(* loadPreset: the preset's texts and arguments; nothing is loaded.        *)
LoadPreset(p) ==
    /\ Clicked("preset")
    /\ preset' = p /\ asmSrc' = PRESETS[p].tasm /\ cSrc' = SourceOf(PRESETS[p].cSource)
    /\ args' = PRESETS[p].defaultArgs /\ from' = [kind |-> "preset"]
    /\ loaded' = FALSE /\ report' = "none" /\ error' = FALSE
    /\ running' = FALSE /\ finalResult' = Null
    /\ UNCHANGED <<vmVars, snapHalted, steps, out, origin>>

theLoaded == <<vmVars, loaded, report, error, finalResult, running, snapHalted, steps, origin>>
EditAsm == /\ Clicked("editAsm") /\ asmSrc' \in HandWritten /\ from' = [kind |-> "hand"]
           /\ UNCHANGED <<theLoaded, preset, cSrc, args, out>>
EditC == /\ Clicked("editC") /\ cSrc' \in Sources
         /\ UNCHANGED <<theLoaded, preset, asmSrc, args, out, from>>
EditArgs == /\ Clicked("editArgs") /\ args' \in ArgSets
            /\ UNCHANGED <<theLoaded, preset, asmSrc, cSrc, out, from>>

(* A fresh task on freshly seeded memory, from the arguments as they are.  *)
Restart ==
    /\ VMFresh(args) /\ vmem' = Memory(PRESETS[preset], args)
    /\ steps' = 0 /\ snapHalted' = FALSE /\ finalResult' = Null

(* assembleAndLoad.  When the assembler refuses the source, the report and  *)
(* the result of the program before stay where they are.                   *)
\* Mutant of Load: the verdict is the one of the last program.
LoadOldReport(asm) ==
    /\ running' = FALSE /\ error' = ~asm.ok /\ loaded' = asm.ok
    /\ IF asm.ok
       THEN /\ words' = Program(asm)
            /\ Restart
            /\ report' = Verdict(words, PRESETS[preset].manifest)
            /\ origin' = [asm |-> asmSrc, from |-> from, preset |-> preset, args |-> args]
       ELSE UNCHANGED <<vmVars, report, finalResult, snapHalted, steps, origin>>
Load(asm) ==
    /\ running' = FALSE /\ error' = ~asm.ok /\ loaded' = asm.ok
    /\ IF asm.ok
       THEN /\ words' = Program(asm)
            /\ Restart
            /\ report' = Verdict(words', PRESETS[preset].manifest)
            /\ origin' = [asm |-> asmSrc, from |-> from, preset |-> preset, args |-> args]
       ELSE UNCHANGED <<vmVars, report, finalResult, snapHalted, steps, origin>>
AssembleAndLoad == Clicked("assemble") /\ Load(assemble(asmSrc)) /\ UNCHANGED editors

(* doCompile: into the assembly editor, nothing else.                      *)
IntoEditor(compiled) ==
    /\ out' = compiled /\ error' = ~compiled.ok
    /\ asmSrc' = IF compiled.ok THEN compiled.lines ELSE asmSrc
    /\ from' = IF compiled.ok THEN [kind |-> "compiled", fn |-> cSrc.fn] ELSE from
Compile ==
    /\ Clicked("compile") /\ IntoEditor(compileC(cSrc.tokens))
    /\ UNCHANGED <<vmVars, preset, cSrc, args, loaded, report, finalResult, running,
                   snapHalted, steps, origin>>

Reset ==
    /\ Clicked("reset") /\ loaded
    /\ running' = FALSE
    /\ Restart
    /\ origin' = [origin EXCEPT !.preset = preset, !.args = args]
    /\ UNCHANGED <<words, editors, loaded, report, error>>

(* vm.step() and what is shown of it.                                      *)
Shown ==
    /\ snapHalted' = halted'
    /\ running' = (running /\ ~halted')
    /\ finalResult' = IF halted' THEN result' ELSE finalResult

(* An empty program: fetch throws before anything but steps has changed, in *)
(* the end with the VM halted by the step limit.                           *)
Throw ==
    /\ Len0 = 0
    /\ halted' = (steps >= maxSteps) /\ err' = (steps >= maxSteps)
    /\ UNCHANGED <<words, vregs, vpc, loopStack, vmem, counters, result, running, finalResult,
                   snapHalted>>

(* "step limit exceeded".                                                  *)
Abort ==
    /\ Len0 > 0 /\ steps >= maxSteps
    /\ halted' = TRUE /\ err' = TRUE
    /\ UNCHANGED <<words, vregs, vpc, loopStack, vmem, counters, result>>
    /\ Shown

Execute == Len0 > 0 /\ steps < maxSteps /\ VMStep /\ Shown

\* Mutant of StepOnce: a task that has halted keeps the interval running.
StepOnceRunsOn ==
    /\ IF ~loaded \/ halted THEN UNCHANGED <<vmVars, running, finalResult, snapHalted, steps>>
       ELSE ~halted /\ steps' = steps + 1 /\ (Throw \/ Abort \/ Execute)
    /\ UNCHANGED <<editors, loaded, report, error, origin>>
StepOnce ==
    /\ \/ /\ ~loaded \/ halted
          /\ running' = FALSE
          /\ UNCHANGED <<vmVars, finalResult, snapHalted, steps>>
       \/ /\ loaded /\ ~halted
          /\ steps' = steps + 1
          /\ Throw \/ Abort \/ Execute
    /\ UNCHANGED <<editors, loaded, report, error, origin>>

StepClick == Clicked("step") /\ loaded /\ ~snapHalted /\ StepOnce
RunClick ==
    /\ Clicked("run") /\ loaded /\ ~snapHalted
    /\ running' = ~running
    /\ UNCHANGED <<vmVars, editors, loaded, report, error, finalResult, snapHalted, steps, origin>>
Tick == running /\ StepOnce /\ NoClick
-----------------------------------------------------------------------------
(* The page as its first assembleAndLoad leaves it.                        *)
Init ==
    /\ preset = 1 /\ asmSrc = graphWalkTasm /\ cSrc = SourceOf(graphWalkC)
    /\ args = PRESETS[1].defaultArgs /\ out = Null /\ from = [kind |-> "preset"]
    /\ words = Program(assemble(graphWalkTasm))
    /\ vregs = [k \in Regs |-> IF k \in 1 .. NUM_ARGS THEN args[k] ELSE 0]
    /\ vpc = 0 /\ loopStack = <<>> /\ inFlight = 0 /\ completions = 0
    /\ halted = FALSE /\ err = FALSE /\ result = NoResult
    /\ vmem = Memory(PRESETS[1], args)
    /\ loaded = TRUE /\ report = Verdict(words, graphManifest) /\ error = FALSE
    /\ finalResult = Null /\ running = FALSE /\ snapHalted = FALSE /\ steps = 0
    /\ origin = [asm |-> asmSrc, from |-> from, preset |-> 1, args |-> args]
    /\ agenda \in Agendas /\ click = "none"

Next ==
    \/ \E p \in DOMAIN PRESETS : LoadPreset(p)
    \/ EditAsm \/ EditC \/ EditArgs
    \/ AssembleAndLoad \/ Compile \/ Reset \/ StepClick \/ RunClick \/ Tick

Spec == Init /\ [][Next]_pgVars
(* The interval fires again and again; nobody has to click.                *)
FairSpec == Spec /\ WF_pgVars(Tick)
-----------------------------------------------------------------------------
Sh == INSTANCE OperatorShapes
C  == INSTANCE TiaraCMeaning WITH LOOP_FUEL <- maxSteps
IsInstruction(w) == /\ w.op \in Ops /\ {w.rd, w.rs1, w.rs2} \subseteq Regs
                    /\ w.sub \in Subs \cup CopyFlags /\ w.imm \in ImmField

TypeOK ==
    /\ \A a \in DOMAIN words : IsInstruction(words[a])
    /\ vregs \in [Regs -> Word] /\ vregs[0] = 0
    /\ vmem \in [Word -> Word]
    /\ loaded \in BOOLEAN /\ running \in BOOLEAN /\ error \in BOOLEAN
    /\ halted \in BOOLEAN /\ snapHalted \in BOOLEAN
    /\ report \in {"none", "pass", "reject"}
    /\ steps \in 0 .. maxSteps + 1
    /\ agenda \in Seq(SUBSET Clicks) /\ click \in Clicks \cup {"none"}

(***************************************************************************)
(* Of the C source in the editor.                                          *)
(***************************************************************************)
fn == cSrc.fn
JustCompiled == click = "compile" /\ out.ok /\ fn # NoFunc

(* The parser gives every expression and statement back as it was meant:    *)
(* precedence, associativity, casts, the extent of bodies (cc.ts 400-490).  *)
ParsesBack ==
    click = "editC" /\ fn # NoFunc => parseFunction(cSrc.tokens) = [ok |-> TRUE, fn |-> fn]

(* When the compiler is done no scratch register is taken but those of the  *)
(* variables still in scope.  Variable indices and results nobody takes     *)
(* are where registers do get lost (cc.ts 521-558, 641-643, 888-902).       *)
ScratchReturned ==
    JustCompiled /\ C!DistinctNames(fn) /\ C!NothingDropped(fn) =>
      out.used = {out.syms[n].reg : n \in DOMAIN out.syms} \cap Scratch

(* What the compiler emits the assembler takes, with loops and branches     *)
(* that nest and do not end together: the shape for which interpreter and   *)
(* core take the same steps.                                               *)
StructuredProgram(asm) == asm.ok /\ Sh!Structured(Program(asm))
CompiledStructured ==
    JustCompiled /\ C!NumbersFit(fn) => StructuredProgram(assemble(out.lines))

(***************************************************************************)
(* Of the program that is loaded, and what the page shows of it.           *)
(***************************************************************************)
ranFn == origin.from.fn
Meant == C!Meaning(ranFn, origin.args, Memory(PRESETS[origin.preset], origin.args))
RanCompiled == loaded /\ finalResult # Null /\ origin.from.kind = "compiled" /\ ranFn # NoFunc
Gives(meant) == meant.def => /\ ~err
                             /\ vmem = meant.mem
                             /\ \A k \in DOMAIN meant.res : finalResult[k] = meant.res[k]
AsMeant == Gives(Meant)

(* Running the compiled program gives the results, and leaves the memory,   *)
(* that the C function means: whatever the allocation of registers, the     *)
(* layout of labels, the encoding and the interpreter did on the way.       *)
MeansWhatItSays == RanCompiled /\ C!PlainC(ranFn) /\ C!CountersFresh(ranFn) => AsMeant

(* The counter of a for loop is usable inside the body (cc.ts 690-693).     *)
CountersUsable == RanCompiled /\ C!PlainC(ranFn) => AsMeant

(* A shipped operator passes the verifier and gives what the comment on top *)
(* of its source promises, for arguments its manifest allows.              *)
Allowed(a, mf) == \A k \in DOMAIN mf.arguments :
                    a[k] \in mf.arguments[k].lo .. mf.arguments[k].hi
Promised(p, a) ==
    CASE p = 1 -> LET node == a[1] + 16 * a[2]       \* graph walk, from a node
                  IN  a[1] % 16 = 0 /\ node <= WINDOW =>
                        finalResult[1] = 100 + node \div 16 /\ finalResult[2] = node
      [] p = 2 -> LET mapped == \A k \in {1, 3, 5} : (a[1] \div 2^k) % 2 = 1
                  IN  a[2] = 0 /\ mapped => finalResult[1] = 48 /\ vmem[a[3]] = 200
      [] p = 3 -> /\ finalResult[1] = 0 /\ finalResult[2] = 0 /\ vmem[a[1]] = 0
                  /\ \A copy \in {a[2], a[4], a[5]} : vmem[copy] = a[3]
      [] p = 4 -> finalResult[1] = 0 /\ finalResult[2] = a[1]
      [] p = 5 -> finalResult[1] = 0 /\ finalResult[2] = a[2]
PresetsAnswer ==
    loaded /\ origin.from.kind = "preset" =>
      /\ report = "pass"
      /\ finalResult # Null /\ Allowed(origin.args, PRESETS[origin.preset].manifest) =>
           ~err /\ Promised(origin.preset, origin.args)

(* While a program is loaded, verdict and result shown are of that program, *)
(* whatever was edited, compiled or refused in between (looked at when the  *)
(* interval is off, for TLC's sake).                                       *)
ShownBelongsToLoaded ==
    loaded /\ ~running =>
      /\ report = Verdict(words, PRESETS[preset].manifest)
      /\ words = Program(assemble(origin.asm))
      /\ finalResult # Null => halted /\ finalResult = result
      /\ halted /\ Len0 > 0 => finalResult # Null

(* Running ends: no program, however it loops, keeps the interval alive.    *)
RunStops == running ~> ~running
=============================================================================
