------------------------------ MODULE Promises ------------------------------
(* What several components promise together: of what the system proposes to  *)
(* itself, of what it saves, and of what is due. The components share no     *)
(* state.                                                                    *)
EXTENDS Ascent, Drive, Approvals, CampaignStore, Quarantine, EventStore,
        CampaignSchedules, SovereignCron

(* Nothing the system proposes to itself is acted on without the Sovereign:  *)
(* what ASCENT stages he approved, every run of a goal of DRIVE he did, and  *)
(* every command the execution engine runs.                                  *)
ActsOnApproval == StagedWasApproved /\ RunsWereApproved /\ CommandsWereApproved

(* What was saved is found again, by whoever writes the file next and after a*)
(* restart: campaigns in their registries and archive, the list of components*)
(* in quarantine, the events and snapshots of a stream.                      *)
SavedSurvives == NoCampaignLost /\ QuarantineRetained /\ EventsSurvive

(* What is due is done once, whichever threads look at the clock: the        *)
(* campaigns of a schedule, the announcements of a cron job.                 *)
ClocksFireOnce == FiresOncePerDue /\ AnnouncedOncePerDue
=============================================================================
