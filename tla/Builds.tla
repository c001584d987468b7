------------------------------- MODULE Builds -------------------------------
(***************************************************************************)
(* The llama.cpp builds that llama-chip pulls from ggml-org releases by     *)
(* itself (internal/backends/ggml.go).  `llama-chip pull-ggml` is a process *)
(* of its own: several can run at once, beside a running `serve`, and each  *)
(* can fail or be killed at any step.  They share the directory             *)
(* ManagedDir()/ggml-<tag>, and nothing locks it.                          *)
(*                                                                         *)
(* A file is missing, empty (created or truncated), part of what the        *)
(* archive has, or whole.  A tag stands for its build number.              *)
(***************************************************************************)
EXTENDS Integers, FiniteSets, Sequences

CONSTANTS
  Pull,      \* pull-ggml processes
  Tag,       \* releases, by build number
  Needed,    \* the assets this host needs, in the order they are fetched
  Has,       \* the assets that each release has
  Contents,  \* the files in each asset
  Server,    \* ServerBinName()
  NoTag

LatestRef == 0  \* the reference "latest"

File == UNION {Contents[Needed[k]] : k \in 1 .. Len(Needed)}

ASSUME TagAssumption ==
  /\ Tag \subseteq Nat \ {LatestRef}
  /\ NoTag \notin Tag /\ NoTag \notin Pull
ASSUME AssetAssumption == Needed \in Seq(DOMAIN Contents) /\ Server \in File

VARIABLES
  file,       \* the files in each managed directory
  writer,     \* the process that truncated each file last, if it still writes
  stage,      \* where a pull is
  tag,        \* the release it works on
  asset,      \* the index of the asset it fetches or extracts
  left,       \* the entries of that asset it has still to extract
  open,       \* the entry it is writing
  cut         \* history: tags whose directory a pull left unfinished

pullVars  == <<stage, tag, asset, left, open>>
buildVars == <<file, writer, pullVars, cut>>

-----------------------------------------------------------------------------
\* os.Stat(server): present, and not of size 0
Complete(t) == file[t][Server] \in {"part", "whole"}

Whole(t) == \A f \in File : file[t][f] = "whole"

\* A pull that has found no server in the directory of t and fills it.
Fills(p, t) == tag[p] = t /\ stage[p] \in {"download", "extract"}

Filled(t) == \E p \in Pull : Fills(p, t)

\* matchGGMLAssets: all the assets that this host needs, or an error
Matches(t) == \A k \in 1 .. Len(Needed) : Needed[k] \in Has[t]

\* DiscoverManaged, the complete ones
Managed == {t \in Tag : Complete(t)}

\* ResolveGGML: newest first, the first that is complete; {} is an error
ResolveGGML(ref) ==
  {t \in Managed : IF ref = LatestRef THEN \A u \in Managed : u <= t ELSE ref = t}

BuildsInit ==
  /\ file = [t \in Tag |-> [f \in File |-> "none"]]
  /\ writer = [t \in Tag |-> [f \in File |-> NoTag]]
  /\ stage = [p \in Pull |-> "idle"]
  /\ tag = [p \in Pull |-> NoTag]
  /\ asset = [p \in Pull |-> 1]
  /\ left = [p \in Pull |-> {}]
  /\ open = [p \in Pull |-> {}]
  /\ cut = {}

(***************************************************************************)
(* PullGGML.                                                               *)
(***************************************************************************)
\* The process is gone; what it wrote stays.
Ends(p) ==
  /\ stage' = [stage EXCEPT ![p] = "idle"]
  /\ tag' = [tag EXCEPT ![p] = NoTag]
  /\ asset' = [asset EXCEPT ![p] = 1]
  /\ left' = [left EXCEPT ![p] = {}]
  /\ open' = [open EXCEPT ![p] = {}]

\* fetchRelease and ggmlAssetURLs: the release that GitHub names for the
\* reference, "latest" or a tag; if they fail nothing has happened yet
Fetch(p, t) ==
  /\ stage[p] = "idle" /\ Matches(t)
  /\ tag' = [tag EXCEPT ![p] = t]
  /\ stage' = [stage EXCEPT ![p] = "stat"]
  /\ UNCHANGED <<file, writer, asset, left, open, cut>>

\* "already present - reusing"
Reuse(p) ==
  /\ stage[p] = "stat" /\ Complete(tag[p])
  /\ Ends(p)
  /\ UNCHANGED <<file, writer, cut>>

\* Mutant of Prepare: the build is pulled again.
PrepareAgain(p) ==
  /\ stage[p] = "stat"
  /\ stage' = [stage EXCEPT ![p] = "download"]
  /\ UNCHANGED <<file, writer, tag, asset, left, open, cut>>

\* MkdirAll
Prepare(p) ==
  /\ stage[p] = "stat" /\ ~Complete(tag[p])
  /\ stage' = [stage EXCEPT ![p] = "download"]
  /\ UNCHANGED <<file, writer, tag, asset, left, open, cut>>

\* downloadToTemp, and the archive is opened
Download(p) ==
  /\ stage[p] = "download" /\ asset[p] <= Len(Needed)
  /\ left' = [left EXCEPT ![p] = Contents[Needed[asset[p]]]]
  /\ stage' = [stage EXCEPT ![p] = "extract"]
  /\ UNCHANGED <<file, writer, tag, asset, open, cut>>

Write(t, f, s) == file' = [file EXCEPT ![t][f] = s]

\* extractZip, extractTarGz: the next entry's file is created or truncated
Create(p, f) ==
  /\ stage[p] = "extract" /\ open[p] = {} /\ f \in left[p]
  /\ Write(tag[p], f, "empty")
  /\ writer' = [writer EXCEPT ![tag[p]][f] = p]
  /\ left' = [left EXCEPT ![p] = @ \ {f}]
  /\ open' = [open EXCEPT ![p] = {f}]
  /\ UNCHANGED <<stage, tag, asset, cut>>

\* io.Copy writes some bytes
Grow(p) ==
  /\ stage[p] = "extract"
  /\ \E f \in open[p] : file[tag[p]][f] = "empty" /\ Write(tag[p], f, "part")
  /\ UNCHANGED <<writer, pullVars, cut>>

\* io.Copy has written the last byte.  If another pull has truncated the file
\* meanwhile, this one's first bytes may be gone.
Close(p) ==
  /\ stage[p] = "extract"
  /\ \E f \in open[p] :
       /\ file[tag[p]][f] # "empty"
       /\ \/ Write(tag[p], f, "whole")
          \/ writer[tag[p]][f] # p /\ UNCHANGED file
       /\ writer' = [writer EXCEPT ![tag[p]][f] = IF @ = p THEN NoTag ELSE @]
  /\ open' = [open EXCEPT ![p] = {}]
  /\ UNCHANGED <<stage, tag, asset, left, cut>>

\* Mutant of NextAsset: the loop over the entries does not end.
NextAssetKeepsOn(p) ==
  /\ stage[p] = "extract" /\ left[p] = {} /\ open[p] = {}
  /\ asset' = [asset EXCEPT ![p] = @ + 1]
  /\ UNCHANGED <<file, writer, stage, tag, left, open, cut>>

\* Mutant of NextAsset: the first asset is taken for the last.
NextAssetNone(p) ==
  /\ stage[p] = "extract" /\ left[p] = {} /\ open[p] = {}
  /\ asset' = [asset EXCEPT ![p] = Len(Needed) + 1]
  /\ stage' = [stage EXCEPT ![p] = "download"]
  /\ UNCHANGED <<file, writer, tag, left, open, cut>>

NextAsset(p) ==
  /\ stage[p] = "extract" /\ left[p] = {} /\ open[p] = {}
  /\ asset' = [asset EXCEPT ![p] = @ + 1]
  /\ stage' = [stage EXCEPT ![p] = "download"]
  /\ UNCHANGED <<file, writer, tag, left, open, cut>>

\* The directory of t, which p leaves unfinished, can still pass for a build.
LeavesUnfinished(p, t) == Complete(t) \/ \E q \in Pull \ {p} : Fills(q, t)

\* A download or an extraction fails, or the process is killed: nothing cleans
\* up after it.
CutShort(p) ==
  /\ stage[p] # "idle"
  /\ Ends(p)
  /\ cut' = cut \cup {t \in Tag : Fills(p, t) /\ LeavesUnfinished(p, t)}
  /\ writer' = [t \in Tag |-> [f \in File |->
                  IF writer[t][f] = p THEN NoTag ELSE writer[t][f]]]
  /\ UNCHANGED file

\* The last stat: "ready", or an error because there is no server
Finish(p) ==
  /\ stage[p] = "download" /\ asset[p] > Len(Needed)
  /\ Ends(p)
  /\ UNCHANGED <<file, writer, cut>>

PullStep(p) ==
  \/ \E t \in Tag : Fetch(p, t)
  \/ Reuse(p) \/ Prepare(p) \/ Download(p) \/ Grow(p) \/ Close(p)
  \/ NextAsset(p) \/ CutShort(p) \/ Finish(p)
  \/ \E f \in File : Create(p, f)

BuildsNext == \E p \in Pull : PullStep(p)

-----------------------------------------------------------------------------
BuildsTypeOK ==
  /\ file \in [Tag -> [File -> {"none", "empty", "part", "whole"}]]
  /\ writer \in [Tag -> [File -> Pull \cup {NoTag}]]
  /\ stage \in [Pull -> {"idle", "stat", "download", "extract"}]
  /\ tag \in [Pull -> Tag \cup {NoTag}]
  /\ asset \in [Pull -> 1 .. Len(Needed) + 1]
  /\ left \in [Pull -> SUBSET File]
  /\ open \in [Pull -> SUBSET File]
  /\ cut \subseteq Tag

\* "a SELF-CONTAINED directory" (ggml.go:6): a directory that passes for a build
\* has every file of it, unless a pull is filling it, or one was cut short
\* there when the server had content already or while another was filling it.
\* A pull cut short before that is repaired by the next one.
PassesWhole == \A t \in Tag : Complete(t) /\ ~Filled(t) /\ t \notin cut => Whole(t)
=============================================================================
