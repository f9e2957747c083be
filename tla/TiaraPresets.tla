---------------------------- MODULE TiaraPresets ----------------------------
(***************************************************************************)
(* web/src/data/operators.ts: the operators the playground ships, as       *)
(* assembly (data/operators/*.tasm), with the manifest, the default        *)
(* arguments and the memory each is tried on; and its C sources.           *)
(*                                                                         *)
(* Scaled to one byte: host memory is 0 .. 127, the devices of the two      *)
(* replicas lie behind it; masks, table bases, sizes and constants of the  *)
(* sources shrink with it, words keep their 8 bytes.                       *)
(***************************************************************************)
EXTENDS TiaraAsm, TiaraCSyntax

r(k) == RegOp(k)
Rrr(head, d, a, b) == Code(head, <<r(d), r(a), r(b)>>)
Rri(head, d, a, v) == Code(head, <<r(d), r(a), IntOp(v)>>)
Li(d, v) == Code("LI", <<r(d), IntOp(v)>>)
Ld(d, base, off) == Code("LOAD", <<r(d), MemOp(base, off)>>)
St(base, off, s) == Code("STORE", <<MemOp(base, off), r(s)>>)
To(head, s, label) == Code(head, <<r(s), SymOp(Name(label))>>)
Arg(name, k) == Code(".arg", <<SymOp(Name(name)), r(k)>>)
Ret(k) == Code("RET", <<r(k)>>)
Async == SymOp(Name("ASYNC"))
Drain == Code("WAIT", <<IntOp(0)>>)

WORD   == 8             \* bytes of a word, and of a block, a page, a slab
WINDOW == 56            \* 0x7FFFFFF8: a word of a region
HOST   == 128           \* 0x80000000: size of a region in host memory
Device(d) == 64 * (d + 1)   \* makeAddr(d, 0, 0), d = 1, 2
-----------------------------------------------------------------------------
graphWalkTasm ==
    << Arg("cur", 1), Arg("depth", 2), To("LOOP", 2, "walk_end"), Ld(1, 1, WORD),
       Rri("ANDI", 1, 1, WINDOW), At(Name("walk_end")), Rri("ADDI", 2, 1, 0), Ld(1, 1, 0), Ret(1) >>

(* One level of the walk: r5 becomes the masked entry of the table at base.*)
Translate(base, shift, mask) ==
    << Rri("SHRI", 4, 1, shift), Rri("ANDI", 4, 4, 1), Rri("SHLI", 4, 4, 3),
       Rrr("ADD", 5, base, 4), Ld(5, 5, 0), Rri("ANDI", 5, 5, mask) >>
pageTableTasm ==
    << Arg("vaddr", 1), Arg("l1", 2), Arg("dst", 3) >>
      \o Translate(2, 5, WINDOW) \o Translate(5, 3, WINDOW) \o Translate(5, 1, WINDOW)
      \o << Rri("ADDI", 1, 5, 0),
            Code("MEMCPY", <<r(2), r(3), r(5), KeyOp("LEN", IntOp(WORD))>>), Ret(1) >>

LATCHED == 57           \* 0xDEAD
Replicate(d, to) == Code("MEMCPY", <<r(d), r(to), r(2), Async, KeyOp("LEN", IntOp(8))>>)
distLockTasm ==
    << Arg("latch", 1), Arg("state", 2), Arg("newVal", 3), Arg("rep1", 4), Arg("rep2", 5),
       Li(7, 0), Li(8, 1), Code("CAS", <<r(9), r(1), r(7), r(8)>>), Li(11, 0),
       Rrr("EQ", 10, 9, 11), To("JUMP", 10, "acquired"), Li(1, LATCHED), Ret(1),
       At(Name("acquired")), Ld(12, 2, 0), St(2, 0, 3), Replicate(13, 4), Replicate(14, 5), Drain,
       Li(7, 0), St(1, 0, 7), Li(1, 0), Rri("ADDI", 2, 12, 0), Ret(1) >>

moeTasm ==
    << Arg("n_exp", 1), Arg("ids", 2), Arg("ttable", 3), Arg("ex_size", 4), Arg("dst", 5),
       Rri("ADDI", 6, 2, 0), Rri("ADDI", 7, 5, 0), Li(8, 0), To("LOOP", 1, "body_end"),
       Ld(9, 6, 0), Rri("ANDI", 9, 9, 3), Rri("SHLI", 9, 9, 3), Rrr("ADD", 10, 3, 9),
       Ld(10, 10, 0), Rri("ANDI", 10, 10, WINDOW),
       Code("MEMCPY", <<r(11), r(7), r(10), Async, KeyOp("LEN", IntOp(WORD))>>),
       Rri("ADDI", 6, 6, 8), Rrr("ADD", 7, 7, 4), Rri("ADDI", 8, 8, 1), At(Name("body_end")),
       Drain, Li(1, 0), Rri("ADDI", 2, 8, 0), Ret(1) >>

pagedTasm ==
    << Arg("btbase", 1), Arg("nblock", 2), Arg("bsize", 3), Arg("dst", 4),
       Rri("ADDI", 5, 1, 0), Rri("ADDI", 6, 4, 0), Li(7, 0), To("LOOP", 2, "body_end"),
       Ld(8, 5, 0), Rri("ANDI", 8, 8, WINDOW),
       Code("MEMCPY", <<r(9), r(6), r(8), Async, KeyOp("LEN_REG", r(3))>>),
       Rri("ADDI", 5, 5, 8), Rrr("ADD", 6, 6, 3), Rri("ADDI", 7, 7, 1), At(Name("body_end")),
       Drain, Li(1, 0), Rri("ADDI", 2, 7, 0), Ret(1) >>
-----------------------------------------------------------------------------
(* Seeds: a word for each seeded address.  What is not seeded reads 0.      *)
OrElse(v, default) == IF v = 0 THEN default ELSE v
Words(base, values) ==
    [a \in {base + 8 * i : i \in 0 .. Len(values) - 1} |-> values[(a - base) \div 8 + 1]]

seedGraph(args) ==
    LET n == Max({OrElse(args[2], 1) + 4, 6})
    IN  Words(0, [k \in 1 .. 2 * n |->
          LET i == (k - 1) \div 2
          IN  IF k % 2 = 1 THEN 100 + i ELSE IF i + 1 < n THEN (i + 1) * 16 ELSE 0])

seedPageTable(args) ==      \* tables at 0, 16 and 32, the page at 48
    Words(8, <<16>>) @@ Words(24, <<32>>) @@ Words(40, <<48>>)
      @@ Words(48, [i \in 1 .. 8 |-> 199 + i])

seedDistLock(args) == Words(0, <<0, 0>>)

seedMoe(args) ==
    LET nExp == OrElse(args[1], 1)
    IN  Words(OrElse(args[3], 16), [i \in 1 .. Max({nExp, 4}) |-> 40 + 8 * i])
          @@ Words(args[2], [i \in 1 .. nExp |-> i - 1])

seedPaged(args) ==
    LET nblock == OrElse(args[2], 4)
        bsize  == OrElse(args[3], WORD)
    IN  Words(args[1], [i \in 1 .. nblock |-> args[1] + nblock * 8 + (i - 1) * bsize])
-----------------------------------------------------------------------------
Value(lo, hi) == [lo |-> lo, hi |-> hi, region |-> "none", opaque |-> FALSE]
Pointer(lo, hi, tag) == [Value(lo, hi) EXCEPT !.region = tag]
Pool(tag) == {[tag |-> tag, base |-> 0, size |-> HOST]}
Manifest(maxDynamic, regions, arguments) ==
    [max_dynamic |-> maxDynamic, regions |-> regions, arguments |-> arguments]

graphManifest ==
    Manifest(24, Pool("graph_pool"), <<Pointer(0, HOST - 8, "graph_pool"), Value(0, 3)>>)
pageTableManifest ==
    Manifest(32, Pool("host_dram"), <<Value(0, 2^WIDTH - 1), Pointer(0, 16, "host_dram"),
                                      Pointer(0, 112, "host_dram")>>)
distLockManifest ==
    Manifest(40, {[tag |-> "lock_state", base |-> 0, size |-> 64],
                  [tag |-> "replica1", base |-> Device(1), size |-> 63],
                  [tag |-> "replica2", base |-> Device(2), size |-> 63]},
             <<Pointer(0, 63, "lock_state"), Pointer(0, 63, "lock_state"), Value(0, 2^WIDTH - 1),
               Pointer(Device(1), Device(1) + 24, "replica1"),
               Pointer(Device(2), Device(2) + 24, "replica2"), Value(0, 64)>>)
moeManifest ==
    Manifest(64, Pool("moe_pool"), <<Value(0, 4), Pointer(0, HOST - 8, "moe_pool"),
             Pointer(0, HOST - 32, "moe_pool"), Value(0, 8), Pointer(0, HOST - 8, "moe_pool")>>)
pagedManifest ==
    Manifest(64, Pool("host_dram"), <<Pointer(0, 112, "host_dram"), Value(0, 4), Value(0, 16),
             Pointer(0, 112, "host_dram")>>)
-----------------------------------------------------------------------------
(* The examples in C: graph_walk.c, and the source the editor starts with. *)
Walk == Id("cur_in_graph_pool")
graphWalkC ==
    Func(<<Param("cur_in_graph_pool", TRUE), Param("depth", FALSE)>>,
         << For("i", Id("depth"),
                << Decl("nxt", Index(Walk, Const(1))),
                   Decl("cur_off", Call("tiara_andi", <<Id("nxt"), Const(WINDOW)>>)),
                   Assign(Walk, "=", Cast(Id("cur_off"))) >>),
            Decl("data", Index(Walk, Const(0))),
            ExprCall(Call("tiara_set_result", <<Const(2), Cast(Walk)>>)),
            Return(Id("data")) >>)
STARTER_C ==
    Func(<<Param("base_in_pool", TRUE), Param("n", FALSE)>>,
         << Decl("sum", Const(0)),
            For("i", Id("n"), << Decl("v", Index(Id("base_in_pool"), Id("i"))),
                                 Assign(Id("sum"), "=", Bin(Id("sum"), "+", Id("v"))) >>),
            Return(Id("sum")) >>)

(* PRESETS, each with the C source shown next to it.                       *)
Preset(tasm, seed, manifest, defaultArgs, c) ==
    [tasm |-> tasm, seed |-> seed, manifest |-> manifest, defaultArgs |-> defaultArgs, cSource |-> c]
PRESETS ==
    << Preset(graphWalkTasm, "graph", graphManifest, <<0, 3, 0, 0, 0, 0, 0, 0>>, graphWalkC),
       Preset(pageTableTasm, "pages", pageTableManifest, <<42, 0, 64, 0, 0, 0, 0, 0>>, STARTER_C),
       Preset(distLockTasm, "lock", distLockManifest, <<0, 8, 77, Device(1), Device(2), 16, 0, 0>>, STARTER_C),
       Preset(moeTasm, "moe", moeManifest, <<3, 0, 32, 8, 72, 0, 0, 0>>, STARTER_C),
       Preset(pagedTasm, "paged", pagedManifest, <<0, 3, 8, 64, 0, 0, 0, 0>>, STARTER_C) >>
Seeds(p, args) ==
    CASE p.seed = "graph" -> seedGraph(args)
      [] p.seed = "pages" -> seedPageTable(args)
      [] p.seed = "lock"  -> seedDistLock(args)
      [] p.seed = "moe"   -> seedMoe(args)
      [] p.seed = "paged" -> seedPaged(args)
(* What is seeded past the last address no address of a program reaches.    *)
Memory(p, args) ==
    LET seed == Seeds(p, args)
    IN  [a \in Word |-> IF a \in DOMAIN seed THEN Wrap(seed[a]) ELSE 0]
=============================================================================
