\* Two UDP trackers and two HTTP trackers.
SPECIFICATION FairSpec
CONSTANTS
  UdpTrackers = {t1, t2}
  NumHttp = 2
  Addresses = {a1}
  Unusable = {bad}
  Garbage = garbage
  MaxDatagrams = 2
INVARIANTS
  TypeOK
  WaitIsTimed
  PeersWereAnnounced
  OneAnswerSuffices
  EndsBadlyForCause
PROPERTY
  AddPeersEnds
