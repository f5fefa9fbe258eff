\* One subscriber, two clicks one after the other, nothing goes wrong.
SPECIFICATION NoticesSpec
CONSTANTS
    People = {a1}
    Clicks = {c1}
    NoticeEnd = 4
    MaxMishaps = 0
INVARIANT SubscriberToldOnce
CHECK_DEADLOCK FALSE
