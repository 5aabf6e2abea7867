------------------------------ MODULE JobParams ------------------------------
(***************************************************************************)
(* From a parameter file to the jobs of a run: the parser (parser.c), the  *)
(* validation and binding of the jobs to their namespace (main.c) and the  *)
(* tables iogen_job_init computes (iogen.c).                               *)
(*                                                                         *)
(* A line is what the character automaton makes of it: a section, a        *)
(* property with the value its conversion gives (a reference to the        *)
(* environment is replaced by then), a line the parser refuses ("bad"), or *)
(* one with a token that is too long ("long").  Comments and blank lines   *)
(* are no lines.  Sizes are bytes.                                         *)
(***************************************************************************)
EXTENDS Integers, Sequences, FiniteSets

CONSTANTS Names,  (* of sections, engines and files                        *)
          Inputs  (* parameter files, each with the namespace it runs on   *)

(* The keys of parse_iosize and of the alignments, with the iosize_opcode. *)
SizeKey == [iosize |-> 0, read_size |-> 1, write_size |-> 2, dealloc_size |-> 3,
            write_zeroes_size |-> 4, write_uncor_size |-> 5]
AlignKey == [iosize_align |-> 0, read_size_align |-> 1, write_size_align |-> 2,
             dealloc_size_align |-> 3, write_zeroes_size_align |-> 4,
             write_uncor_size_align |-> 5]

(* What the conversions of the parser make of the value of a key.          *)
Operations ==
  {"read", "write", "flush", "deallocate", "write_zeroes", "write_uncorrect", "identify"}
SlbaTypes == {"seq", "uniform", "zipf", "pareto", "fixed", "jesd219", "replay"}
AmountTypes == {"infinite", "time", "io", "byte"}
Part == [percent : BOOLEAN, value : Nat]
ValueOK(key, v) ==
  /\ key \in {"ioengine", "dependency", "journal_file"} => v \in Names
  /\ key = "separate_stream" => v \in BOOLEAN
  /\ key \in {"nsid", "iodepth", "slba_align", "amount_scale", "journal_shm"} => v \in Nat
  /\ key \in DOMAIN SizeKey => v \in Seq(Nat)
  /\ key \in DOMAIN AlignKey => v \in Nat
  /\ key = "operation" => v \in Seq([op : Operations, rate : Nat \cup {-1}])
  /\ key = "amount" => v \in [type : AmountTypes, value : Nat, percent : BOOLEAN]
  /\ key = "lba_range" => v \in [begin : Part, size : Part]
  /\ key = "slba" => v \in [type : SlbaTypes \cup {"unknown"}, lba : Nat]

(* A namespace has nlbs blocks of 2^shift bytes and, with extended LBAs,   *)
(* ext bytes of metadata behind each.                                      *)
ASSUME NamesAssumption == {"", "NONAME"} \subseteq Names
ASSUME InputsAssumption ==
  \A i \in Inputs :
    /\ i.shift \in {9, 12} /\ i.nlbs \in Nat \ {0} /\ i.ext \in Nat
    /\ Len(i.file) \in Nat
    /\ \A k \in 1 .. Len(i.file) :
         LET l == i.file[k] IN
         /\ l.kind = "section" => l.name \in Names
         /\ l.kind = "prop" => ValueOK(l.key, l.value)

VARIABLES input,     (* the file and the namespace                         *)
          pos,       (* lines read                                         *)
          defaults,  (* parser->default_job_params                         *)
          jobs,      (* params->job_params                                 *)
          iosize,    (* the globals iosize_min and iosize_max              *)
          nsis,      (* per nsid, the journal of its namespace_info        *)
          nvalid,    (* jobs validated                                     *)
          pc         (* where the main thread is                           *)

paramVars == <<input, pos, defaults, jobs, iosize, nsis, nvalid, pc>>

U32Max == 2147483647  (* stands for 0xFFFFFFFF, no multiple of a block size *)
Max(a, b) == IF a < b THEN b ELSE a
Min(a, b) == IF a < b THEN a ELSE b

(* The keys that set one field of a job, and the values before any line.   *)
PlainDefault ==
  [ioengine |-> "", nsid |-> 0, dependency |-> "", iodepth |-> 1, slba_align |-> 0,
   separate_stream |-> FALSE, amount_scale |-> 1]
PlainKeys == DOMAIN PlainDefault

NoSize == [min |-> 0, max |-> 0, align |-> 0]
DefaultParams ==
  [name |-> "NONAME", depends |-> 0, plain |-> PlainDefault,
   journal_file |-> "", journal_shm |-> 0,
   iosizes |-> [i \in 0 .. 5 |-> NoSize], operations |-> [o \in Operations |-> 0],
   slba |-> "seq", lba |-> 0,
   begin |-> [percent |-> FALSE, value |-> 0], size |-> [percent |-> TRUE, value |-> 100],
   amount |-> [type |-> "infinite", value |-> 0, percent |-> FALSE, share |-> 0]]

(* job_params *)
Params ==
  [name : Names, depends : Nat,
   plain : [ioengine : Names, nsid : Nat, dependency : Names, iodepth : Nat,
            slba_align : Nat, separate_stream : BOOLEAN, amount_scale : Nat],
   journal_file : Names, journal_shm : Nat,
   iosizes : [0 .. 5 -> [min : Nat, max : Nat, align : Nat]],
   operations : [Operations -> Int], slba : SlbaTypes, lba : Nat, begin : Part, size : Part,
   amount : [type : AmountTypes, value : Nat, percent : BOOLEAN, share : Nat]]

ParamsInit ==
  /\ input \in Inputs /\ pos = 0 /\ defaults = DefaultParams /\ jobs = <<>>
  /\ iosize = [min |-> U32Max, max |-> 0]
  /\ nsis = [n \in {} |-> DefaultParams] /\ nvalid = 0 /\ pc = "parse"
-----------------------------------------------------------------------------
(* Each parse_ function gives the set of the new parameters: none if the   *)
(* parser reports an error.                                                *)

(* A list of operations, each with a rate or, rate -1, with what is left.  *)
(* No rate may exceed what is left, and nothing is left at the end.        *)
Remained(v) ==
  LET left[i \in 0 .. Len(v)] ==
        IF i = 0 THEN 100 ELSE IF v[i].rate = -1 THEN 0 ELSE left[i - 1] - v[i].rate
  IN left
ParseOperation(p, v) ==
  LET left == Remained(v)
      Rate(o) == IF \E i \in 1 .. Len(v) : v[i].op = o
                   THEN LET i == CHOOSE i \in 1 .. Len(v) : v[i].op = o
                        IN left[i - 1] - left[i]
                   ELSE 0
  IN IF /\ \A i, k \in 1 .. Len(v) : v[i].op = v[k].op => i = k
        /\ \A i \in 0 .. Len(v) : left[i] \in 0 .. 100
        /\ left[Len(v)] = 0
       THEN {[p EXCEPT !.operations = [o \in Operations |-> Rate(o)]]}
       ELSE {}

(* One size, or the two ends of a range in either order. *)
Smallest(v) == IF Len(v) = 1 THEN v[1] ELSE Min(v[1], v[2])
Largest(v) == IF Len(v) = 1 THEN v[1] ELSE Max(v[1], v[2])
ParseIosize(p, i, v) ==
  IF Len(v) \in 1 .. 2
    THEN {[p EXCEPT !.iosizes[i].min = Smallest(v), !.iosizes[i].max = Largest(v)]}
    ELSE {}

(* A percentage is kept beside the amount and stays enabled. *)
ParseAmount(p, v) ==
  CASE v.type = "infinite" -> {[p EXCEPT !.amount.type = "infinite"]}
    [] v.type = "byte" /\ v.percent ->
         {[p EXCEPT !.amount = [@ EXCEPT !.type = "byte", !.percent = TRUE, !.share = v.value]]}
    [] OTHER -> {[p EXCEPT !.amount = [@ EXCEPT !.type = v.type, !.value = v.value]]}

(* JOURNAL_FILE and JOURNAL_SHM are mutually exclusive. *)
ParseJournal(p, key, v) ==
  IF (key = "journal_file" /\ p.journal_shm # 0) \/ (key = "journal_shm" /\ p.journal_file # "")
    THEN {} ELSE {[p EXCEPT ![key] = v]}

(* on_property_defined.  A distribution parse_slba does not know changes   *)
(* nothing.                                                                *)
OnProperty(p, key, v) ==
  CASE key \in PlainKeys -> {[p EXCEPT !.plain[key] = v]}
    [] key \in DOMAIN SizeKey -> ParseIosize(p, SizeKey[key], v)
    [] key \in DOMAIN AlignKey -> {[p EXCEPT !.iosizes[AlignKey[key]].align = v]}
    [] key = "operation" -> ParseOperation(p, v)
    [] key = "amount" -> ParseAmount(p, v)
    [] key = "lba_range" -> {[p EXCEPT !.begin = v.begin, !.size = v.size]}
    [] key = "slba" /\ v.type = "unknown" -> {p}
    [] key = "slba" /\ v.type # "unknown" -> {[p EXCEPT !.slba = v.type, !.lba = v.lba]}
    [] key \in {"journal_file", "journal_shm"} -> ParseJournal(p, key, v)
    [] OTHER -> {}

Line == input.file[pos + 1]
HasLine(kind) == pc = "parse" /\ pos < Len(input.file) /\ Line.kind = kind
(* parser->job_params: the last section, or the defaults before the first. *)
Current == IF jobs = <<>> THEN defaults ELSE jobs[Len(jobs)]
Result == OnProperty(Current, Line.key, Line.value)

(* Mutant: a section starts from the section before it. *)
DefineSectionChained ==
  /\ HasLine("section") /\ jobs' = Append(jobs, [Current EXCEPT !.name = Line.name])
  /\ pos' = pos + 1 /\ UNCHANGED <<input, defaults, iosize, nsis, nvalid, pc>>

(* on_section_defined: a new job, with the defaults of this moment.  Names *)
(* fit into the 64 bytes of job_params.name.                               *)
DefineSection ==
  /\ HasLine("section") /\ jobs' = Append(jobs, [defaults EXCEPT !.name = Line.name])
  /\ pos' = pos + 1 /\ UNCHANGED <<input, defaults, iosize, nsis, nvalid, pc>>

(* Mutant: the sizes of reads do not count for the buffers. *)
CountsForBuffersTotal(key) == key = "iosize"
CountsForBuffers(key) == key \in {"iosize", "read_size", "write_size"}

DefineProperty ==
  /\ HasLine("prop") /\ Result # {} /\ pos' = pos + 1
  /\ \E p \in Result :
       IF jobs = <<>> THEN defaults' = p /\ UNCHANGED jobs
                      ELSE jobs' = [jobs EXCEPT ![Len(jobs)] = p] /\ UNCHANGED defaults
  /\ iosize' = IF CountsForBuffers(Line.key)
                 THEN [min |-> Min(iosize.min, Smallest(Line.value)),
                       max |-> Max(iosize.max, Largest(Line.value))]
                 ELSE iosize
  /\ UNCHANGED <<input, nsis, nvalid, pc>>

(* parsing_error ends the process. *)
ParsingError ==
  /\ HasLine("bad") \/ (HasLine("prop") /\ Result = {})
  /\ pc' = "failed" /\ UNCHANGED <<input, pos, defaults, jobs, iosize, nsis, nvalid>>

(* A token that is too long is reported; the line is dropped.  After the   *)
(* name of a section, what follows goes to the section before.             *)
DropLine ==
  /\ HasLine("long") /\ pos' = pos + 1
  /\ UNCHANGED <<input, defaults, jobs, iosize, nsis, nvalid, pc>>

(* The end of parse_param: without a section, the defaults are the job. *)
EndOfFile ==
  /\ pc = "parse" /\ pos = Len(input.file) /\ pc' = "validate"
  /\ jobs' = IF jobs = <<>> THEN <<defaults>> ELSE jobs
  /\ UNCHANGED <<input, pos, defaults, iosize, nsis, nvalid>>
-----------------------------------------------------------------------------
DataSize == 2 ^ input.shift
NsSize == input.nlbs * DataSize

Bytes(part, whole) == IF part.percent THEN (whole * part.value) \div 100 ELSE part.value
RangeBegin(p) == Bytes(p.begin, NsSize)
RangeSize(p) == Bytes(p.size, NsSize)
AmountBytes(p) ==
  IF p.amount.percent THEN (RangeSize(p) * p.amount.share) \div 100 ELSE p.amount.value

(* bind_params.  A range outside of the namespace is reported, before the  *)
(* amount is scaled; validate does not look at the result.                 *)
Bind(p) ==
  LET bound == [p EXCEPT !.begin = [percent |-> FALSE, value |-> RangeBegin(p)],
                         !.size = [percent |-> FALSE, value |-> RangeSize(p)],
                         !.amount.value = AmountBytes(p)]
  IN IF RangeBegin(p) + RangeSize(p) > NsSize THEN bound
     ELSE [bound EXCEPT !.amount.value = @ * p.plain.amount_scale]

(* The sizes of a job that gives none are the extremes of all jobs. *)
WithSizes(p) ==
  IF p.iosizes[0].min = 0 \/ p.iosizes[0].max = 0
    THEN [p EXCEPT !.iosizes[0].min = iosize.min, !.iosizes[0].max = iosize.max]
    ELSE p

Named(name) == {j \in 1 .. Len(jobs) : jobs[j].name = name}
Index == nvalid + 1
Job == jobs[Index]

(* The first job of a namespace names its journal; another may only name   *)
(* the same file.  What it says of shared memory is not looked at.         *)
JournalRedefined ==
  /\ Job.plain.nsid \in DOMAIN nsis
  /\ nsis[Job.plain.nsid].journal_file # Job.journal_file

Invalid ==
  LET p == WithSizes(Job) IN
  \/ Job.plain.ioengine = "" \/ JournalRedefined
  \/ p.iosizes[0].min = 0
  \/ p.iosizes[0].min % DataSize # 0 \/ p.iosizes[0].max % DataSize # 0
  \/ (Job.plain.dependency # "" /\ Cardinality(Named(Job.plain.dependency)) # 1)

(* One iteration of the loop of validate. *)
Validate ==
  /\ pc = "validate" /\ nvalid < Len(jobs) /\ ~Invalid
  /\ nsis' = [n \in DOMAIN nsis \cup {Job.plain.nsid} |->
                IF n \in DOMAIN nsis THEN nsis[n]
                ELSE [journal_file |-> Job.journal_file, journal_shm |-> Job.journal_shm]]
  /\ jobs' = [jobs EXCEPT ![Index] =
       [Bind(WithSizes(Job)) EXCEPT !.depends =
          IF Job.plain.dependency = "" THEN Index
          ELSE CHOOSE j \in Named(Job.plain.dependency) : TRUE]]
  /\ nvalid' = Index /\ UNCHANGED <<input, pos, defaults, iosize, pc>>

ValidateFails ==
  /\ pc = "validate" /\ nvalid < Len(jobs) /\ Invalid
  /\ pc' = "failed" /\ UNCHANGED <<input, pos, defaults, jobs, iosize, nsis, nvalid>>

(* iogen_job_init: the block counts per iosize_opcode, those of iosize     *)
(* where a size is not given.                                              *)
Lbas(p) ==
  [i \in 0 .. 5 |->
     LET s == IF p.iosizes[i].min = 0 /\ p.iosizes[i].max = 0 THEN p.iosizes[0] ELSE p.iosizes[i]
     IN [min |-> s.min \div DataSize, max |-> s.max \div DataSize]]
InitJobs ==
  /\ pc = "validate" /\ nvalid = Len(jobs)
  /\ pc' = IF \E j \in 1 .. Len(jobs), i \in 0 .. 5 :
                Lbas(jobs[j])[i].min = 0 \/ Lbas(jobs[j])[i].max = 0
             THEN "failed" ELSE "ready"
  /\ UNCHANGED <<input, pos, defaults, jobs, iosize, nsis, nvalid>>

ParamsNext ==
  \/ DefineSection \/ DefineProperty \/ ParsingError \/ DropLine \/ EndOfFile
  \/ Validate \/ ValidateFails \/ InitJobs
-----------------------------------------------------------------------------
Lines == {i \in 1 .. pos : input.file[i].kind # "bad"}
Sections == {i \in Lines : input.file[i].kind = "section"}
(* The lines of the file that set key for job j: its own section, and what *)
(* stands before the first one.                                            *)
Settings(key, inside(_)) ==
  {i \in Lines : input.file[i].kind = "prop" /\ input.file[i].key = key /\ inside(i)}
Own(j, i) == Cardinality({s \in Sections : s < i}) = j
Last(S) == CHOOSE i \in S : \A k \in S : k <= i

(* A job has the value its own section gives last, else the one given last *)
(* before the first section, else the built-in one: no section inherits    *)
(* from another, whatever the order of lines.                              *)
Inherited ==
  \A j \in 1 .. Len(jobs), key \in PlainKeys :
    LET own == Settings(key, LAMBDA i : Own(j, i))
        before == Settings(key, LAMBDA i : Own(0, i)) IN
    jobs[j].plain[key] =
      IF own # {} THEN input.file[Last(own)].value
      ELSE IF before # {} THEN input.file[Last(before)].value ELSE PlainDefault[key]
=============================================================================
