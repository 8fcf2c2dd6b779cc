CONSTANTS
    Pages = {1, 2}
    Trials = {1, 2, 3}
    Experiments <- MCExperiments
    Code <- MCCode
    Shared <- MCShared
    Guarded <- MCGuarded
    Timed <- MCTimed
    Gated <- MCGated
    Faulty = {1}
    Patient <- MCPatient
    Reports <- MCReports
    Kinds <- MCKinds
    Faults <- MCFaults
SPECIFICATION FairSpec
INVARIANTS TypeOK CompletedIsStored OutcomeIsDeserved TrackingIsRecorded QuestionsDoNotOverlapPlay
           RolesSwitch PageCanPlay NothingLeftRunning PartialRecordingStopped
PROPERTIES NoFalseAlarm SessionEnds RoomEmpties
CHECK_DEADLOCK FALSE
