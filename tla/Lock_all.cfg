\* Three tasks and two locks; waiting tasks are killed while they are blocked.
SPECIFICATION FairSpec
CONSTANTS
    Tasks = {t1, t2, t3}
    Locks = {a, b}
    None = None
    Killable = {"blocked"}
INVARIANTS MutualExclusion WaitersListed NoLostWakeup DeathReleases
PROPERTY Handover
