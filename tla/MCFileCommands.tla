--------------------------- MODULE MCFileCommands ---------------------------
(***************************************************************************)
(* Commands that share files and nothing else: the package archives of     *)
(* attachments (PackageCache) and the start-up file (SiteBootstrap).  The  *)
(* two have no file in common; a behaviour is one of either.               *)
(***************************************************************************)
EXTENDS PackageCache, TLC

CONSTANTS Others, MaxForeign

VARIABLES
  part,  \* which half moves
  file, step, wants, seen, result, disturbed, gaveUp, foreign

siteVars == <<file, step, wants, seen, result, disturbed, gaveUp, foreign>>

Site == INSTANCE SiteBootstrap WITH pc <- step

ASSUME SiteAssumption == Site!ConstantsAssumption

MCInit == Init /\ Site!Init /\ part \in {"cache", "site"}

CacheStep == part = "cache" /\ Next /\ UNCHANGED siteVars
SiteStep == part = "site" /\ Site!Next /\ UNCHANGED vars
MCNext == (CacheStep \/ SiteStep) /\ UNCHANGED part

MCSpec == MCInit /\ [][MCNext]_<<vars, siteVars, part>>

\* Commands run the same code, fingerprints have no order.
Symmetry == Permutations(Commands) \union Permutations(Versions)

\* After a race nothing is claimed about the archives.
NotRaced == ~raced

\* No order of commands takes the archive away from a session or from a process
\* that was ever monitored from it, but for the races (_prune_package_cache,
\* write_process_lease); with the invariant that this rests on.
ArchivesStay == CacheInv /\ SourceStays

\* What the start-up file's commands say they did is so if nobody else changed
\* the path meanwhile (install and remove of site_bootstrap.py); with the
\* invariant that this rests on.
SaysWhatIsSo == Site!BootstrapInv /\ Site!SaysWhatIsSo

\* A file that neither install nor remove will touch, though no other tool
\* wrote it, is left only by a command that crashed, was interrupted or could
\* not undo what it wrote (install, "except BaseException").
StuckWasGivenUp == Site!StuckWasGivenUp

\* A command makes away with another tool's file only if that came after it
\* had inspected the path (install and remove of site_bootstrap.py).
ForeignFileStays == Site!ForeignFileStays
=============================================================================
