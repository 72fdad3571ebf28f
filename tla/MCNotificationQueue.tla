------------------------ MODULE MCNotificationQueue ------------------------
EXTENDS NotificationQueue, TLC

=============================================================================
