----------------------------- MODULE MCWorkload -----------------------------
(* Instances of Workload: every short file over a few lines, for the       *)
(* parser, and one file per kind of workload.                              *)
EXTENDS Workload

Section(n) == [kind |-> "section", name |-> n]
Prop(k, v) == [kind |-> "prop", key |-> k, value |-> v]
Op(o, r) == [op |-> o, rate |-> r]
Slba(t, l) == Prop("slba", [type |-> t, lba |-> l])
Amount(t, v, p) == Prop("amount", [type |-> t, value |-> v, percent |-> p])
Percent(v) == [percent |-> TRUE, value |-> v]
Lba(v) == [percent |-> FALSE, value |-> v * 512]
RangeOf(b, s) == Prop("lba_range", [begin |-> b, size |-> s])
Base == <<Prop("ioengine", "null"), Prop("iosize", <<1024>>)>>
Kept(v) == Prop("iodepth", v)

SomeLines ==
  {Section("a"), Section("b"), Prop("journal_file", "f"), Prop("journal_shm", 1),
   Prop("dependency", "a"), Prop("nsid", 1), [kind |-> "long"], [kind |-> "bad"]}
ShortFiles ==
  {[file |-> Base \o s, shift |-> 9, nlbs |-> 4, ext |-> 0] :
     s \in UNION {[1 .. n -> SomeLines] : n \in 0 .. 4}}

Run(lines, shift, nlbs, ext) ==
  [file |-> Base \o lines, shift |-> shift, nlbs |-> nlbs, ext |-> ext]
Workloads ==
  {(* reads behind writes *)
   Run(<<Slba("seq", 0), Prop("separate_stream", TRUE), Kept(3), Prop("iosize", <<512, 1024>>),
         Prop("operation", <<Op("read", 50), Op("write", -1)>>)>>, 9, 7, 0),
   (* a sequential fill, and with extended metadata *)
   Run(<<Slba("seq", 3), Kept(2), Prop("operation", <<Op("write", 100)>>),
         Amount("byte", 100, TRUE), Prop("slba_align", 1024)>>, 9, 12, 0),
   Run(<<Slba("seq", 0), Kept(2), Prop("operation", <<Op("write", -1)>>),
         Amount("byte", 100, TRUE)>>, 9, 8, 8),
   (* random, aligned, in a part of the namespace *)
   Run(<<Slba("zipf", 0), Kept(2), Prop("iosize", <<1024, 2048>>), Prop("iosize_align", 1024),
         Prop("read_size_align", 1024), Prop("slba_align", 1024), RangeOf(Percent(25), Percent(50)),
         Prop("operation", <<Op("write", 60), Op("read", 40)>>)>>, 9, 16, 0),
   (* an alignment that is no power of two *)
   Run(<<Slba("uniform", 0), Kept(1), Prop("slba_align", 1536), Prop("read_size_align", 1536),
         Prop("operation", <<Op("write", 60), Op("read", 40)>>)>>, 9, 7, 0),
   (* jesd219 on both block sizes *)
   Run(<<Slba("jesd219", 4096), Kept(1), Prop("operation", <<Op("write", 100)>>)>>, 12, 20, 0),
   Run(<<Slba("jesd219", 512), Kept(1), Amount("io", 3, FALSE)>>, 9, 40, 0),
   (* as long as the range, longer than the range, out of the namespace *)
   Run(<<Slba("uniform", 0), RangeOf(Lba(0), Lba(2))>>, 9, 8, 0),
   Run(<<Slba("uniform", 0), RangeOf(Lba(0), Lba(1))>>, 9, 8, 0),
   Run(<<Slba("uniform", 0), RangeOf(Percent(50), Percent(100)), Amount("io", 2, FALSE),
         Prop("amount_scale", 2)>>, 9, 8, 0),
   (* sizes by operation, and a section without IOSIZE *)
   [file |->
      <<Prop("ioengine", "null"), Slba("uniform", 0), Kept(2),
        Section("a"), Prop("iosize", <<4096, 512>>), Prop("read_size", <<8192>>),
        Prop("dealloc_size", <<1536>>),
        Prop("operation", <<Op("write", 30), Op("read", 30), Op("deallocate", 20), Op("flush", -1)>>),
        Section("b"), Prop("write_size", <<512>>), Slba("unknown", 0), Slba("fixed", 1),
        Prop("operation", <<Op("write_uncorrect", 90), Op("write_zeroes", 10)>>)>>,
    shift |-> 9, nlbs |-> 18, ext |-> 0],
   (* refused: rates, sizes below a block *)
   Run(<<Prop("operation", <<Op("read", 50), Op("write", 40)>>)>>, 9, 8, 0),
   Run(<<Prop("read_size", <<256>>)>>, 9, 8, 0),
   Run(<<Prop("iosize", <<256>>)>>, 9, 8, 0),
   Run(<<Amount("byte", 50, TRUE), Section("a"), Amount("infinite", 0, FALSE)>>, 9, 8, 0)}

AllInputs == ShortFiles \cup Workloads
=============================================================================
