CONSTANTS
  mail1 = mail1
  mail2 = mail2
  mail3 = mail3
  worker1 = worker1
  worker2 = worker2
  Mqtt = Mqtt
  Main = Main
  Nothing = Nothing
  Notice = Notice
  Mails <- MCMails
  Workers <- MCWorkers
  IOT_ACTION_QUEUE_MAX = 1
  SingleThread = FALSE
  MaxDrops = 1
  MaxIntervals = 1
SPECIFICATION FairSpec
INVARIANTS TypeOK OneCheckPending
PROPERTY MailServed
CHECK_DEADLOCK FALSE
