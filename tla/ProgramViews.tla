------------------------------ MODULE ProgramViews ------------------------------
(***************************************************************************)
(* The views of the program escrow (program-escrow/src/lib.rs): the        *)
(* statistics, and the lists of schedules that the service behind the      *)
(* payout key reads to see what it may release.  Views write nothing: this *)
(* module adds no action, and its property relates what the views answer   *)
(* to what was paid and to what a trigger would release.                   *)
(***************************************************************************)
EXTENDS Paging, ProgramEscrow

\* MAX_BATCH_SIZE and MAX_QUERY_LIMIT are both 100
ASSUME PageAssumption == MaxBatch <= MaxQueryLimit

\* SCHEDULES lists the schedules in the order of their ids
ScheduleList == [i \in Scheduled |-> i]

\* get_program_release_schedules: a page by position
ReleaseSchedules(offset, limit) == Slice(ScheduleList, offset, Capped(limit))

\* query_schedules_by_recipient and query_schedules_by_status have no cap
SchedulesByRecipient(r, offset, limit) ==
    Page(ScheduleList, {i \in Ids : schedules[i].recipient = r}, offset, limit)

SchedulesByStatus(released, offset, limit) ==
    Page(ScheduleList, {i \in Ids : schedules[i].released = released}, offset, limit)

PendingSchedules(offset, limit) ==
    Page(ScheduleList, Pending, offset, Capped(limit))

DueSchedules(offset, limit) ==
    Page(ScheduleList, {i \in Pending : schedules[i].at <= now}, offset, Capped(limit))

TotalScheduledAmount == Scheduling(Pending)

\* get_program_aggregate_stats, without the copies of what is stored
AggregateStats ==
    [paidOut |-> totalFunds - remaining,
     scheduled |-> Cardinality(Pending),
     released |-> Cardinality(Scheduled \ Pending)]

-----------------------------------------------------------------------------
(* Properties *)

\* What the service reads is what it finds, in storage that keeps its types.
\* The statistics say what the
\* recipients got and what the release history lists, through every mix of
\* payouts and releases.  The schedules listed as due in one page are those
\* that a trigger would release, unless a dispute or the whitelist, which the
\* list does not look at, makes it skip some of them.  Two pages of a list
\* continue one another, and the schedules pending for each recipient add up
\* to what is scheduled.
ViewsReconcile ==
    /\ TypeOK /\ PoolIsBacked
    /\ AggregateStats.paidOut = Sum(received, Recipients)
    /\ AggregateStats.released = Sum(entries, Ids)
    /\ LET due == ToSet(DueSchedules(0, MaxBatch))
       IN  /\ due \subseteq Due => due = Triggered
           /\ \A i \in Triggered \ due : \E j \in due : j < i /\ j \notin Due
    /\ \A limit \in 1 .. MaxQueryLimit :
          /\ IsPrefix(PendingSchedules(0, limit) \o PendingSchedules(limit, MaxSchedules),
                      SchedulesByStatus(FALSE, 0, MaxSchedules))
          /\ IsPrefix(ReleaseSchedules(0, limit) \o ReleaseSchedules(limit, MaxSchedules),
                      ScheduleList)
    /\ TotalScheduledAmount =
          Sum([r \in Recipients |->
                  Scheduling({i \in ToSet(SchedulesByRecipient(r, 0, MaxSchedules)) :
                                 ~schedules[i].released})], Recipients)
=============================================================================
