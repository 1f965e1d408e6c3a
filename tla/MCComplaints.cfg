\* Complaints, their notices and the crons.
SPECIFICATION FairSpec
CONSTANTS
    c1 = c1  c2 = c2  t1 = t1  t2 = t2
    ann = ann  bob = bob
    r1 = r1  r2 = r2
    Complaint = {c1, c2}
    Subject = {c1, c2, t1, t2}
    User = {ann, bob}
    Admin = {ann}
    Request = {r1, r2}
    Nil = Nil
    Gone = Gone
    MaxNotices = 2
    Load <- MCLoad
INVARIANTS TypeOK RowsAreAccountedFor LateIsAnnounced AnnouncedTwiceAtMost
PROPERTIES FollowsLifecycle OldComplaintsAreNoticed NoticesSettle DueTasksAreWarned
CHECK_DEADLOCK FALSE
